---- MODULE Spec2Model ----
(***************************************************************************)
(* Model of the waterhy configuration tools:                               *)
(*   im.py          river/tributary topology editor (ConfigWindow)         *)
(*   inflowload.py  inflow / PV spreadsheet mapper (MappingWindow)         *)
(*                                                                         *)
(* Texts (names typed in line edits, cell contents, combo entries) are     *)
(* sequences of one-character strings, so that str.strip() is computed.    *)
(***************************************************************************)
EXTENDS Integers, Sequences, FiniteSets, TLC

VARIABLES
    edges,          \* the edge list handed to _has_cycle
    cycle_out,      \* [called, result] of the _has_cycle call
    river_groups,   \* ConfigWindow.river_groups: the RiverGroup widgets, in order
    save_out,       \* what the most recent ConfigWindow.on_save call did
    scan_in,        \* [wb, sheet_name, col_index] given to find_last_non_empty_row
    scan_out,       \* [called, none, row, opened] of that call
    fs,             \* the workbook found at each path
    open_handles,   \* workbook handles opened and not yet released
    row,            \* one ReservoirRow or PVRow widget
    mapping_out,    \* [called, m]: what the most recent to_mapping call returned
    last_browse,    \* how the row's most recent file choice ended
    configs,        \* the topology file found at each configuration path
    win,            \* the MappingWindow: its fields and its rows
    map_out,        \* what the most recent on_save_mapping call did
    load_log,       \* [last, succeeded]: how the last load ended, whether one ever succeeded
    trip_in,        \* the rivers of a ReservoirConfig about to be saved
    trip_out,       \* [called, file, pairs]: the file written and the list read back
    sys_reservoirs, \* RiverSystem.reservoirs of one river
    res_list_layout, \* the label texts of the reservoir rows of one RiverGroup, in order
    res_op          \* [op, name, before]: the reservoir operation that ran last

cycleVars == <<edges, cycle_out>>
topoVars == <<river_groups, save_out>>
scanVars == <<scan_in, scan_out>>
fileVars == <<fs, open_handles>>
rowVars == <<row, mapping_out, last_browse>>
mapVars == <<configs, win, map_out, load_log>>
tripVars == <<trip_in, trip_out>>
riverVars == <<sys_reservoirs, res_list_layout, res_op>>

vars == <<edges, cycle_out, river_groups, save_out, scan_in, scan_out,
          fs, open_handles, row, mapping_out, last_browse, configs, win, map_out, load_log,
          trip_in, trip_out,
          sys_reservoirs, res_list_layout, res_op>>

\* what the handlers of one component leave alone
notCycle == <<topoVars, scanVars, fileVars, rowVars, mapVars, tripVars, riverVars>>
notTopo == <<cycleVars, scanVars, fileVars, rowVars, mapVars, tripVars, riverVars>>
notScan == <<cycleVars, topoVars, fileVars, rowVars, mapVars, tripVars, riverVars>>
notRow == <<cycleVars, topoVars, scanVars, mapVars, tripVars, riverVars>>
notMap == <<cycleVars, topoVars, scanVars, rowVars, tripVars, riverVars>>
notTrip == <<cycleVars, topoVars, scanVars, fileVars, rowVars, mapVars, riverVars>>
notRiver == <<cycleVars, topoVars, scanVars, fileVars, rowVars, mapVars, tripVars>>

----------------------------------------------------------------------------
(* Bounds *)
MaxEdges == 3
MaxRivers == 3
MaxRow == 9
MaxStartRow == 10
MaxHandles == 7
MaxPV == 1
MaxTripRivers == 2
MaxTripReservoirs == 2
MaxReservoirRows == 3

----------------------------------------------------------------------------
(* Generic helpers *)

Range(s) == {s[i] : i \in 1..Len(s)}

SeqsUpTo(S, n) == UNION {[1..k -> S] : k \in 0..n}

Max2(a, b) == IF a >= b THEN a ELSE b

\* the sequence s without its i-th element
RemoveAt(s, i) == [j \in 1..(Len(s) - 1) |-> IF j < i THEN s[j] ELSE s[j + 1]]

RECURSIVE LStrip(_)
LStrip(t) == IF t # <<>> /\ Head(t) = " " THEN LStrip(Tail(t)) ELSE t

RECURSIVE RStrip(_)
RStrip(t) ==
    IF t # <<>> /\ t[Len(t)] = " " THEN RStrip(SubSeq(t, 1, Len(t) - 1)) ELSE t

\* str.strip()
Strip(t) == RStrip(LStrip(t))

----------------------------------------------------------------------------
(* im.py: ConfigWindow._has_cycle                                          *)

WHITE == 0
GRAY == 1
BLACK == 2

RECURSIVE GraphKeys(_, _, _)
\* dict insertion order of `graph`: for each edge a then b, first occurrence only
GraphKeys(es, i, keys) ==
    IF i > Len(es) THEN keys
    ELSE LET a == es[i][1]
             b == es[i][2]
             k1 == IF a \in Range(keys) THEN keys ELSE Append(keys, a)
             k2 == IF b \in Range(k1) THEN k1 ELSE Append(k1, b)
         IN GraphKeys(es, i + 1, k2)

\* graph[u]: the targets of u's edges, in edge order
GraphAdj(es, u) == SelectSeq([i \in 1..Len(es) |-> es[i]], LAMBDA e : e[1] = u)

RECURSIVE DfsLoopNoBlack(_, _, _, _)
\* DfsLoop with the final color[u] = BLACK left out: an explored node stays GRAY
DfsLoopNoBlack(es, color, u, i) ==
    LET succ == GraphAdj(es, u) IN
    IF i > Len(succ)
    THEN [found |-> FALSE, color |-> color]
    ELSE LET v == succ[i][2] IN
         IF color[v] = GRAY
         THEN [found |-> TRUE, color |-> color]
         ELSE IF color[v] = WHITE
              THEN LET r == DfsLoopNoBlack(es, [color EXCEPT ![v] = GRAY], v, 1) IN
                   IF r.found THEN r ELSE DfsLoopNoBlack(es, r.color, u, i + 1)
              ELSE DfsLoopNoBlack(es, color, u, i + 1)

RECURSIVE DfsLoop(_, _, _, _)
\* the body of dfs(u) from the i-th successor on; color[u] is already GRAY
DfsLoop(es, color, u, i) ==
    LET succ == GraphAdj(es, u) IN
    IF i > Len(succ)
    THEN [found |-> FALSE, color |-> [color EXCEPT ![u] = BLACK]]
    ELSE LET v == succ[i][2] IN
         IF color[v] = GRAY
         THEN [found |-> TRUE, color |-> color]
         ELSE IF color[v] = WHITE
              THEN LET r == DfsLoop(es, [color EXCEPT ![v] = GRAY], v, 1) IN
                   IF r.found THEN r ELSE DfsLoop(es, r.color, u, i + 1)
              ELSE DfsLoop(es, color, u, i + 1)

Dfs(es, color, u) == DfsLoop(es, [color EXCEPT ![u] = GRAY], u, 1)

RECURSIVE HasCycleFrom(_, _, _, _)
\* the outer loop over list(graph.keys())
HasCycleFrom(es, keys, color, k) ==
    IF k > Len(keys) THEN FALSE
    ELSE IF color[keys[k]] = WHITE
         THEN LET r == Dfs(es, color, keys[k]) IN
              IF r.found THEN TRUE ELSE HasCycleFrom(es, keys, r.color, k + 1)
         ELSE HasCycleFrom(es, keys, color, k + 1)

HasCycle(es) ==
    LET keys == GraphKeys(es, 1, <<>>)
    IN HasCycleFrom(es, keys, [n \in Range(keys) |-> WHITE], 1)

----------------------------------------------------------------------------
(* im.py: RiverGroup and ConfigWindow                                      *)
(*                                                                         *)
(* A RiverGroup is [title, name_edit, is_trib, items, cur, reservoirs]:    *)
(* title is the N of the group title "river N", items/cur the entries and  *)
(* the current index (0 = none) of insert_target_combo.  The insertion     *)
(* point and the upstream/downstream combo are free values copied into the *)
(* tributary record and read by no check; they are not carried.            *)

\* the combo entry shown when a tributary has no possible target (line 145)
NoTargetText == <<"(no target)">>

\* texts the user can type into name_edit
TypedNames == {<<>>, <<"A">>, <<" ", "A">>, NoTargetText}

\* QGroupBox title: the heading "H" followed by the default name (line 75)
GroupTitle(n) == <<"H", "R", ToString(n)>>

\* title().replace(heading, "")
RemoveHeading(t) == SelectSeq(t, LAMBDA c : c # "H")

GetRiverName(g) ==
    IF Strip(g.name_edit) # <<>> THEN Strip(g.name_edit)
    ELSE Strip(RemoveHeading(GroupTitle(g.title)))

IsMainStream(g) == ~g.is_trib

RECURSIVE Uniq(_, _, _)
\* the de-duplication loop of get_current_river_names
Uniq(names, i, uniq) ==
    IF i > Len(names) THEN uniq
    ELSE Uniq(names, i + 1,
              IF names[i] \in Range(uniq) THEN uniq ELSE Append(uniq, names[i]))

GetCurrentRiverNames(groups, exclude) ==
    LET all == [i \in 1..Len(groups) |-> GetRiverName(groups[i])]
        names == SelectSeq(all, LAMBDA nm : nm # <<>> /\ nm # exclude)
    IN Uniq(names, 1, <<>>)

\* clear() then addItems(): the combo shows its first entry afterwards
RefreshInsertTargets(g, groups) ==
    IF ~g.is_trib THEN [g EXCEPT !.items = <<>>, !.cur = 0]
    ELSE LET all_rivers == GetCurrentRiverNames(groups, GetRiverName(g)) IN
         IF all_rivers = <<>>
         THEN [g EXCEPT !.items = <<NoTargetText>>, !.cur = 1]
         ELSE [g EXCEPT !.items = all_rivers, !.cur = 1]

OnRiverTypeOrNameChanged(groups) ==
    [i \in 1..Len(groups) |-> RefreshInsertTargets(groups[i], groups)]

\* insert_target_combo.currentText()
CurrentTarget(g) == IF g.cur = 0 THEN <<>> ELSE g.items[g.cur]

NewRiverGroup(idx) ==
    [title |-> idx + 1, name_edit |-> <<>>, is_trib |-> FALSE,
     items |-> <<>>, cur |-> 0, reservoirs |-> <<>>]

\* Tributary(...) or the None of a main stem (has |-> FALSE)
GetTributaryLink(g) ==
    [has |-> ~IsMainStream(g),
     tributary_name |-> GetRiverName(g),
     insertion_river |-> Strip(CurrentTarget(g))]

TributaryDict(l) ==
    [tributary_name |-> l.tributary_name, insertion_river |-> l.insertion_river]

SystemNames(systems) == {systems[i].river_name : i \in 1..Len(systems)}

(* im.py: the reservoirs of a river                                        *)
(*                                                                         *)
(* RiverSystem keeps a list of names; a RiverGroup keeps one row widget    *)
(* per reservoir, whose name is read back from the row's labels.           *)

\* the name appended whether or not the river has it
AddReservoirNoCheck(reservoirs, name) ==
    IF name # <<>> THEN Append(reservoirs, name) ELSE reservoirs

\* RiverSystem.add_reservoir
AddReservoir(reservoirs, name) ==
    IF name # <<>> /\ name \notin Range(reservoirs) THEN Append(reservoirs, name)
    ELSE reservoirs

\* RiverSystem.remove_reservoir: list.remove takes the first occurrence away
RemoveReservoir(reservoirs, name) ==
    IF name \in Range(reservoirs)
    THEN RemoveAt(reservoirs, CHOOSE i \in 1..Len(reservoirs) :
                                 /\ reservoirs[i] = name
                                 /\ \A k \in 1..(i - 1) : reservoirs[k] # name)
    ELSE reservoirs

\* the text of the label that stands before the name in a reservoir row
ReservoirHeading == <<"W">>

\* _row_label_text of a row built for `label`: the first label with a text
\* other than the heading, else ""
RowLabelText(label) ==
    IF label # <<>> /\ label # ReservoirHeading THEN Strip(label) ELSE <<>>

\* get_reservoir_names
GetReservoirNames(rows) ==
    SelectSeq([i \in 1..Len(rows) |-> RowLabelText(rows[i])], LAMBDA t : t # <<>>)

\* on_add_reservoir with `typed` in res_name_edit
OnAddReservoir(rows, typed) ==
    LET name == Strip(typed) IN
    IF name = <<>> THEN rows
    ELSE IF \E i \in 1..Len(rows) : RowLabelText(rows[i]) = name THEN rows
    ELSE Append(rows, name)

\* _remove_reservoir_row of the row at place i
RemoveReservoirRow(rows, i) == RemoveAt(rows, i)

RECURSIVE Assemble(_, _, _, _)
\* the first loop of on_save: name_to_system (in insertion order) and the
\* tributary links, or the first duplicated name
Assemble(groups, i, systems, links) ==
    IF i > Len(groups)
    THEN [dup |-> FALSE, systems |-> systems, links |-> links]
    ELSE LET g == groups[i]
             name == GetRiverName(g)
             sys_obj == [river_name |-> name,
                         is_main_stream |-> IsMainStream(g),
                         reservoirs |-> GetReservoirNames(g.reservoirs),
                         tributaries |-> <<>>]
             link == GetTributaryLink(g)
         IN IF name = <<>> THEN Assemble(groups, i + 1, systems, links)
            ELSE IF name \in SystemNames(systems)
            THEN [dup |-> TRUE, systems |-> systems, links |-> links]
            ELSE Assemble(groups, i + 1, Append(systems, sys_obj),
                          IF link.has THEN Append(links, TributaryDict(link))
                          ELSE links)

\* the check of line 354-357: some link's target is no key of name_to_system
HasDangling(systems, links) ==
    \E k \in 1..Len(links) : links[k].insertion_river \notin SystemNames(systems)

LinkEdges(links) ==
    [k \in 1..Len(links) |-> <<links[k].tributary_name, links[k].insertion_river>>]

\* the loop of line 366-367
Attach(systems, links) ==
    [j \in 1..Len(systems) |->
        [systems[j] EXCEPT !.tributaries =
            SelectSeq(links, LAMBDA l : l.insertion_river = systems[j].river_name)]]

\* the main stems written first, the tributaries after them
RiversFinalMainFirst(groups, systems) ==
    LET kept == SelectSeq(groups, LAMBDA g : GetRiverName(g) \in SystemNames(systems))
        ordered == SelectSeq(kept, IsMainStream)
                     \o SelectSeq(kept, LAMBDA g : ~IsMainStream(g))
    IN [i \in 1..Len(ordered) |->
          CHOOSE sy \in Range(systems) : sy.river_name = GetRiverName(ordered[i])]

\* rivers_final: the RiverSystem of each group, in the order of river_groups
RiversFinal(groups, systems) ==
    LET kept == SelectSeq(groups, LAMBDA g : GetRiverName(g) \in SystemNames(systems))
    IN [i \in 1..Len(kept) |->
          CHOOSE sy \in Range(systems) : sy.river_name = GetRiverName(kept[i])]

NoSave ==
    [kind |-> "none", cycle_checked |-> FALSE, systems |-> <<>>, artifact |-> <<>>]

\* cycle analysis first, the two name checks after it
OnSaveCycleFirst(groups) ==
    LET a == Assemble(groups, 1, <<>>, <<>>) IN
    IF a.dup
    THEN [kind |-> "DuplicateName", cycle_checked |-> FALSE,
          systems |-> a.systems, artifact |-> <<>>]
    ELSE IF HasCycle(LinkEdges(a.links))
    THEN [kind |-> "TopologyCycle", cycle_checked |-> TRUE,
          systems |-> a.systems, artifact |-> <<>>]
    ELSE IF HasDangling(a.systems, a.links)
    THEN [kind |-> "DanglingReference", cycle_checked |-> TRUE,
          systems |-> a.systems, artifact |-> <<>>]
    ELSE LET done == Attach(a.systems, a.links) IN
         [kind |-> "saved", cycle_checked |-> TRUE,
          systems |-> done, artifact |-> RiversFinal(groups, done)]

\* the cycle only warned about, the save going on
OnSaveCycleNotFatal(groups) ==
    LET a == Assemble(groups, 1, <<>>, <<>>) IN
    IF a.dup
    THEN [kind |-> "DuplicateName", cycle_checked |-> FALSE,
          systems |-> a.systems, artifact |-> <<>>]
    ELSE IF HasDangling(a.systems, a.links)
    THEN [kind |-> "DanglingReference", cycle_checked |-> FALSE,
          systems |-> a.systems, artifact |-> <<>>]
    ELSE LET done == Attach(a.systems, a.links) IN
         [kind |-> "saved", cycle_checked |-> TRUE,
          systems |-> done, artifact |-> RiversFinal(groups, done)]

\* on_save: what it reports, whether _has_cycle ran, the RiverSystem objects
\* as it leaves them, and the rivers written to project_config.json
OnSaveResult(groups) ==
    LET a == Assemble(groups, 1, <<>>, <<>>) IN
    IF a.dup
    THEN [kind |-> "DuplicateName", cycle_checked |-> FALSE,
          systems |-> a.systems, artifact |-> <<>>]
    ELSE IF HasDangling(a.systems, a.links)
    THEN [kind |-> "DanglingReference", cycle_checked |-> FALSE,
          systems |-> a.systems, artifact |-> <<>>]
    ELSE IF HasCycle(LinkEdges(a.links))
    THEN [kind |-> "TopologyCycle", cycle_checked |-> TRUE,
          systems |-> a.systems, artifact |-> <<>>]
    ELSE LET done == Attach(a.systems, a.links) IN
         [kind |-> "saved", cycle_checked |-> TRUE,
          systems |-> done, artifact |-> RiversFinal(groups, done)]

(* The handlers.  save_out is the outcome of the handler that ran last: any *)
(* other handler resets it.                                                *)

add_river_group ==
    /\ Len(river_groups) < MaxRivers
    /\ river_groups' =
         OnRiverTypeOrNameChanged(
             Append(river_groups, NewRiverGroup(Len(river_groups))))
    /\ save_out' = NoSave
    /\ UNCHANGED notTopo

delete_river_group ==
    \E i \in 1..Len(river_groups) :
        /\ river_groups' = OnRiverTypeOrNameChanged(RemoveAt(river_groups, i))
        /\ save_out' = NoSave
        /\ UNCHANGED notTopo

\* name_edit.textChanged (line 133)
on_name_edited ==
    \E i \in 1..Len(river_groups), t \in TypedNames :
        /\ t # river_groups[i].name_edit
        /\ river_groups' =
             OnRiverTypeOrNameChanged([river_groups EXCEPT ![i].name_edit = t])
        /\ save_out' = NoSave
        /\ UNCHANGED notTopo

\* type_combo.currentIndexChanged -> _on_type_changed
on_type_changed ==
    \E i \in 1..Len(river_groups) :
        /\ river_groups' =
             OnRiverTypeOrNameChanged(
                 [river_groups EXCEPT ![i].is_trib = ~river_groups[i].is_trib])
        /\ save_out' = NoSave
        /\ UNCHANGED notTopo

\* the user picks another entry of an enabled insert_target_combo
select_insert_target ==
    \E i \in 1..Len(river_groups) :
        \E k \in 1..Len(river_groups[i].items) :
            /\ river_groups[i].items # <<NoTargetText>>
            /\ k # river_groups[i].cur
            /\ river_groups' = [river_groups EXCEPT ![i].cur = k]
            /\ save_out' = NoSave
            /\ UNCHANGED notTopo

on_save ==
    /\ save_out' = OnSaveResult(river_groups)
    /\ UNCHANGED river_groups
    /\ UNCHANGED notTopo

InitTopo ==
    /\ river_groups = <<>>
    /\ save_out = NoSave

NextTopo ==
    \/ add_river_group
    \/ delete_river_group
    \/ on_name_edited
    \/ on_type_changed
    \/ select_insert_target
    \/ on_save

----------------------------------------------------------------------------
(* openpyxl workbooks as the code reads them                               *)
(*                                                                         *)
(* A cell is [null, text]: None, or a value with its str().  A sheet is    *)
(* [max_row, cols]: cols[c][r] is the cell of column c, row r; a cell      *)
(* outside the stored area reads None.  A workbook is [readable,           *)
(* sheetnames, sheets]; load_workbook raises on an unreadable one.         *)

NoneCell == [null |-> TRUE, text |-> <<>>]
BlankCell == [null |-> FALSE, text |-> <<" ">>]
DataCell == [null |-> FALSE, text |-> <<"4", "2">>]

CellValues == {NoneCell, BlankCell, DataCell}

CellAt(ws, r, c) ==
    IF c \in 1..Len(ws.cols) /\ r \in 1..Len(ws.cols[c]) THEN ws.cols[c][r]
    ELSE NoneCell

\* v is not None and str(v).strip() != ""   (line 78)
NonEmptyCell(v) == ~v.null /\ Strip(v.text) # <<>>

HasSheet(wb, sheet_name) == \E k \in 1..Len(wb.sheetnames) : wb.sheetnames[k] = sheet_name

SheetOf(wb, sheet_name) ==
    wb.sheets[CHOOSE k \in 1..Len(wb.sheetnames) : wb.sheetnames[k] = sheet_name]

RECURSIVE ScanUp(_, _, _)
\* for r in range(max_row, 0, -1): the first non-empty cell, 0 when none
ScanUp(ws, col_index, r) ==
    IF r = 0 THEN 0
    ELSE IF NonEmptyCell(CellAt(ws, r, col_index)) THEN r
    ELSE ScanUp(ws, col_index, r - 1)

RECURSIVE ScanDown(_, _, _)
\* top-down until the first blank
ScanDown(ws, col_index, r) ==
    IF r > ws.max_row \/ ~NonEmptyCell(CellAt(ws, r, col_index)) THEN r - 1
    ELSE ScanDown(ws, col_index, r + 1)

NoRow(opened) == [none |-> TRUE, row |-> 0, opened |-> opened]

\* the scan run top-down from row 1 until the first blank cell
FindLastTopDown(wb, sheet_name, col_index) ==
    IF ~wb.readable THEN NoRow(0)
    ELSE IF ~HasSheet(wb, sheet_name) THEN NoRow(1)
    ELSE LET r == ScanDown(SheetOf(wb, sheet_name), col_index, 1)
         IN IF r = 0 THEN NoRow(1) ELSE [none |-> FALSE, row |-> r, opened |-> 1]

\* find_last_non_empty_row: the row (none |-> TRUE for None) and the number
\* of workbook handles the call opened; it closes none
FindLastNonEmptyRow(wb, sheet_name, col_index) ==
    IF ~wb.readable THEN NoRow(0)
    ELSE IF ~HasSheet(wb, sheet_name) THEN NoRow(1)
    ELSE LET r == ScanUp(SheetOf(wb, sheet_name), col_index,
                         SheetOf(wb, sheet_name).max_row)
         IN IF r = 0 THEN NoRow(1) ELSE [none |-> FALSE, row |-> r, opened |-> 1]

----------------------------------------------------------------------------
(* datetime.date / datetime.datetime arithmetic                            *)
(*                                                                         *)
(* A date-time is [y, m, d, hh, mi, ss]; a date has hh = mi = ss = 0.      *)

IsLeap(y) == (y % 4 = 0) /\ ((y % 100 # 0) \/ (y % 400 = 0))

DaysInMonth(y, m) ==
    IF m = 2 THEN (IF IsLeap(y) THEN 29 ELSE 28)
    ELSE IF m \in {4, 6, 9, 11} THEN 30 ELSE 31

NextDay(t) ==
    IF t.d < DaysInMonth(t.y, t.m) THEN [t EXCEPT !.d = t.d + 1]
    ELSE IF t.m < 12 THEN [t EXCEPT !.d = 1, !.m = t.m + 1]
    ELSE [t EXCEPT !.d = 1, !.m = 1, !.y = t.y + 1]

RECURSIVE AddDays(_, _)
\* date + timedelta(days=n), n >= 0
AddDays(t, n) == IF n = 0 THEN t ELSE AddDays(NextDay(t), n - 1)

\* datetime + timedelta(hours=n), n >= 0
AddHours(t, n) ==
    LET total == t.hh + n
    IN [AddDays(t, total \div 24) EXCEPT !.hh = total % 24]

\* date.isoformat() / strftime("%Y-%m-%d %H:%M:%S"): the printed fields
FormatDate(t) == <<t.y, t.m, t.d>>
FormatDateTime(t) == <<t.y, t.m, t.d, t.hh, t.mi, t.ss>>

Date(y, m, d) == [y |-> y, m |-> m, d |-> d, hh |-> 0, mi |-> 0, ss |-> 0]
DateTime(y, m, d, hh, mi, ss) ==
    [y |-> y, m |-> m, d |-> d, hh |-> hh, mi |-> mi, ss |-> ss]

----------------------------------------------------------------------------
(* inflowload.py: ReservoirRow and PVRow                                   *)
(*                                                                         *)
(* The two classes share their code but for the unit of the range; a row   *)
(* is one record, kind "daily" for a ReservoirRow and "hourly" for a       *)
(* PVRow.  Combo boxes are (items, cur) with cur = 0 for no current entry. *)
(* `opened` counts the load_workbook calls that succeeded during the       *)
(* handler being run; no handler calls close().  The file system is a      *)
(* function f from paths to workbooks.                                     *)

\* the sheet combo entry of a workbook without sheets (line 172)
EmptyWorkbookText == <<"(empty workbook)">>

\* openpyxl.utils.get_column_letter
GetColumnLetter(i) == <<<<"A">>, <<"B">>, <<"C">>, <<"D">>>>[i]

DashLabel == [tag |-> "dash", fields |-> <<>>]
NoDataLabel == [tag |-> "nodata", fields |-> <<>>]

DefaultStart(kind) == Date(2000, 1, 1)

NewRow(kind, river_name, reservoir_name, pv_index) ==
    [kind |-> kind, river_name |-> river_name, reservoir_name |-> reservoir_name,
     pv_index |-> pv_index,
     file_edit |-> <<>>, last_wb_path |-> <<>>,
     sheet_items |-> <<>>, sheet_cur |-> 0, sheet_enabled |-> TRUE,
     col_items |-> <<>>, col_cur |-> 0,
     row_spin |-> 1, start |-> DefaultStart(kind),
     end_label |-> DashLabel, opened |-> 0]

SheetText(r) == IF r.sheet_cur = 0 THEN <<>> ELSE r.sheet_items[r.sheet_cur]

\* col_combo.currentData() or {}: index 0 stands for a missing "index"
ColIndex(r) == IF r.col_cur = 0 THEN 0 ELSE r.col_items[r.col_cur]

\* the range taken n units long, not n - 1
EndTextOffByOne(kind, start, n) ==
    IF kind = "daily" THEN FormatDate(AddDays(start, n))
    ELSE FormatDateTime(AddHours(start, n))

\* end = start + timedelta(max(n - 1, 0)), printed
EndText(kind, start, n) ==
    IF kind = "daily" THEN FormatDate(AddDays(start, Max2(n - 1, 0)))
    ELSE FormatDateTime(AddHours(start, Max2(n - 1, 0)))

\* _auto_calc_end without the test last_row < start_row
AutoCalcEndNoStartCheck(r, f) ==
    LET r1 == [r EXCEPT !.end_label = DashLabel]
        sheet == Strip(SheetText(r))
        col_index == ColIndex(r)
    IN IF r.last_wb_path = <<>> THEN r1
       ELSE IF sheet = <<>> \/ col_index = 0 THEN r1
       ELSE LET last == FindLastNonEmptyRow(f[r.last_wb_path], sheet, col_index)
                r2 == [r1 EXCEPT !.opened = r1.opened + last.opened]
            IN IF last.none
               THEN [r2 EXCEPT !.end_label = NoDataLabel]
               ELSE [r2 EXCEPT !.end_label =
                        [tag |-> "value",
                         fields |-> EndText(r.kind, r.start,
                                            last.row - r.row_spin + 1)]]

AutoCalcEnd(r, f) ==
    LET r1 == [r EXCEPT !.end_label = DashLabel]
        sheet == Strip(SheetText(r))
        col_index == ColIndex(r)
    IN IF r.last_wb_path = <<>> THEN r1
       ELSE IF sheet = <<>> \/ col_index = 0 THEN r1
       ELSE LET last == FindLastNonEmptyRow(f[r.last_wb_path], sheet, col_index)
                r2 == [r1 EXCEPT !.opened = r1.opened + last.opened]
            IN IF last.none \/ last.row < r.row_spin
               THEN [r2 EXCEPT !.end_label = NoDataLabel]
               ELSE [r2 EXCEPT !.end_label =
                        [tag |-> "value",
                         fields |-> EndText(r.kind, r.start,
                                            last.row - r.row_spin + 1)]]

\* col_combo.clear(): currentIndexChanged fires when an entry was current
ClearColumns(r, f) ==
    LET r1 == [r EXCEPT !.col_items = <<>>, !.col_cur = 0]
    IN IF r.col_cur # 0 THEN AutoCalcEnd(r1, f) ELSE r1

RefreshColumns(r, f) ==
    LET r1 == ClearColumns(r, f)
        sheet == Strip(SheetText(r))
    IN IF r.last_wb_path = <<>> THEN r1
       ELSE IF sheet = <<>> THEN r1
       ELSE LET wb == f[r.last_wb_path] IN
            IF ~wb.readable THEN r1
            ELSE LET r2 == [r1 EXCEPT !.opened = r1.opened + 1] IN
                 IF ~HasSheet(wb, sheet) THEN r2
                 ELSE LET max_col == Max2(Len(SheetOf(wb, sheet).cols), 1)
                      IN AutoCalcEnd([r2 EXCEPT !.col_items = [i \in 1..max_col |-> i],
                                                !.col_cur = 1], f)

OnSheetChanged(r, f) == AutoCalcEnd(RefreshColumns(r, f), f)

\* sheet_combo.clear(): currentIndexChanged fires when an entry was current
ClearSheets(r, f) ==
    LET r1 == [r EXCEPT !.sheet_items = <<>>, !.sheet_cur = 0]
    IN IF r.sheet_cur # 0 THEN OnSheetChanged(r1, f) ELSE r1

\* the failure path also emptying the file field
LoadSheetNamesForgetFile(r, xlsx_path, f) ==
    LET wb == f[xlsx_path] IN
    IF ~wb.readable
    THEN [ClearColumns(ClearSheets(r, f), f) EXCEPT !.last_wb_path = <<>>,
                                                    !.file_edit = <<>>]
    ELSE LET r1 == ClearSheets([r EXCEPT !.opened = r.opened + 1], f) IN
         IF wb.sheetnames = <<>>
         THEN [OnSheetChanged([r1 EXCEPT !.sheet_items = <<EmptyWorkbookText>>,
                                         !.sheet_cur = 1], f)
                  EXCEPT !.sheet_enabled = FALSE]
         ELSE [OnSheetChanged([r1 EXCEPT !.sheet_items = wb.sheetnames,
                                         !.sheet_cur = 1], f)
                  EXCEPT !.sheet_enabled = TRUE]

\* _load_sheet_names
LoadSheetNames(r, xlsx_path, f) ==
    LET wb == f[xlsx_path] IN
    IF ~wb.readable
    THEN [ClearColumns(ClearSheets(r, f), f) EXCEPT !.last_wb_path = <<>>]
    ELSE LET r1 == ClearSheets([r EXCEPT !.opened = r.opened + 1], f) IN
         IF wb.sheetnames = <<>>
         THEN [OnSheetChanged([r1 EXCEPT !.sheet_items = <<EmptyWorkbookText>>,
                                         !.sheet_cur = 1], f)
                  EXCEPT !.sheet_enabled = FALSE]
         ELSE [OnSheetChanged([r1 EXCEPT !.sheet_items = wb.sheetnames,
                                         !.sheet_cur = 1], f)
                  EXCEPT !.sheet_enabled = TRUE]

\* on_browse_file with the path the dialog returned (<<>>: cancelled)
OnBrowseFile(r, path, f) ==
    IF path = <<>> THEN r
    ELSE LET r1 == [r EXCEPT !.last_wb_path = path, !.file_edit = path]
         IN AutoCalcEnd(RefreshColumns(LoadSheetNames(r1, path, f), f), f)

\* the user picks sheet k: currentIndexChanged -> on_sheet_changed
SheetSelected(r, k, f) == OnSheetChanged([r EXCEPT !.sheet_cur = k], f)

\* the user picks column k: currentIndexChanged -> _auto_calc_end
ColumnSelected(r, k, f) == AutoCalcEnd([r EXCEPT !.col_cur = k], f)

\* the start row changed with the signal left unconnected
RowSpinChangedNoRecalc(r, v, f) == [r EXCEPT !.row_spin = v]

\* row_spin.valueChanged -> _auto_calc_end
RowSpinChanged(r, v, f) == AutoCalcEnd([r EXCEPT !.row_spin = v], f)

\* date_edit.dateChanged / dt_edit.dateTimeChanged -> _auto_calc_end
StartChanged(r, t, f) == AutoCalcEnd([r EXCEPT !.start = t], f)

NullValue == [null |-> TRUE, fields |-> <<>>]
NullCount == [null |-> TRUE, n |-> 0]

\* the count taken without the + 1
RecordCountOffByOne(last_row, start_row) == last_row - start_row

\* record_count = last_row - start_row + 1   (line 236)
RecordCount(last_row, start_row) == last_row - start_row + 1

\* to_mapping; column_index 0 and column_letter <<>> stand for None
ToMapping(r, f) ==
    LET col_index == ColIndex(r)
        col_letter == IF col_index = 0 THEN <<>> ELSE GetColumnLetter(col_index)
        sheet == Strip(SheetText(r))
        scans == r.last_wb_path # <<>> /\ col_index # 0 /\ sheet # <<>>
        last == IF scans THEN FindLastNonEmptyRow(f[r.last_wb_path], sheet, col_index)
                ELSE NoRow(0)
    IN [time_scale |-> r.kind,
        river_name |-> r.river_name,
        reservoir_name |-> r.reservoir_name,
        pv_index |-> r.pv_index,
        file_path |-> Strip(r.file_edit),
        sheet_name |-> sheet,
        column_letter |-> col_letter,
        column_index |-> col_index,
        start_row |-> r.row_spin,
        start |-> IF r.kind = "daily" THEN FormatDate(r.start)
                  ELSE FormatDateTime(r.start),
        end |-> IF r.end_label.tag = "value"
                THEN [null |-> FALSE, fields |-> r.end_label.fields]
                ELSE NullValue,
        record_count |-> IF ~last.none /\ last.row >= r.row_spin
                         THEN [null |-> FALSE, n |-> RecordCount(last.row, r.row_spin)]
                         ELSE NullCount,
        opened |-> last.opened]

IsValid(r, f) ==
    LET m == ToMapping(r, f) IN
    IF m.file_path # <<>>
    THEN m.sheet_name # <<>> /\ m.column_letter # <<>> /\ m.column_index # 0
         /\ m.start # <<>>
    ELSE TRUE

----------------------------------------------------------------------------
(* Specification SpecScan: find_last_non_empty_row applied to every column *)
(* of up to MaxRow cells, in a readable or unreadable workbook, asked for  *)
(* under the sheet's name or under a name the workbook lacks               *)

UnreadableWb == [readable |-> FALSE, sheetnames |-> <<>>, sheets |-> <<>>]

OneColumnWb(col) ==
    [readable |-> TRUE, sheetnames |-> <<<<"S">>>>,
     sheets |-> <<[max_row |-> Len(col), cols |-> <<col>>]>>]

NotCalled == [called |-> FALSE, none |-> TRUE, row |-> 0, opened |-> 0]

ScanIdle ==
    /\ scan_in = [wb |-> UnreadableWb, sheet_name |-> <<>>, col_index |-> 1]
    /\ scan_out = NotCalled

InitScan ==
    /\ scan_in \in [wb : {UnreadableWb}
                          \cup {OneColumnWb(c) : c \in SeqsUpTo(CellValues, MaxRow)},
                    sheet_name : {<<"S">>, <<"T">>},
                    col_index : {1}]
    /\ scan_out = NotCalled

RunFindLast ==
    /\ ~scan_out.called
    /\ LET r == FindLastNonEmptyRow(scan_in.wb, scan_in.sheet_name, scan_in.col_index)
       IN scan_out' = [called |-> TRUE, none |-> r.none, row |-> r.row,
                       opened |-> r.opened]
    /\ UNCHANGED scan_in
    /\ UNCHANGED notScan

NextScan == RunFindLast

----------------------------------------------------------------------------
(* Specification SpecRow: one mapping row edited by the user, over        *)
(* workbooks whose contents stay as they are during the session            *)

SheetS1 == <<"S", "1">>
SheetS2 == <<"S", "2">>

\* rows 3 and 5-9 populated, row 4 blank, rows 1-2 never written
ExampleColumn ==
    <<NoneCell, NoneCell, DataCell, BlankCell, DataCell,
      DataCell, DataCell, DataCell, DataCell>>

\* sheet S1: column A the example column, column B without data;
\* sheet S2: 25 hourly records from row 1 on
FullWb ==
    [readable |-> TRUE, sheetnames |-> <<SheetS1, SheetS2>>,
     sheets |-> <<[max_row |-> 9, cols |-> <<ExampleColumn, <<NoneCell, BlankCell>>>>],
                  [max_row |-> 25, cols |-> <<[r \in 1..25 |-> DataCell]>>]>>]

\* one sheet with a never-written area: max_column is None
BareWb ==
    [readable |-> TRUE, sheetnames |-> <<SheetS1>>,
     sheets |-> <<[max_row |-> 0, cols |-> <<>>]>>]

NoSheetWb == [readable |-> TRUE, sheetnames |-> <<>>, sheets |-> <<>>]

Workbooks == {FullWb, BareWb, NoSheetWb, UnreadableWb}

Paths == {<<"a.xlsx">>, <<"b.xlsx">>}

StartValues(kind) ==
    IF kind = "daily"
    THEN {Date(2000, 1, 1), Date(2020, 1, 1), Date(2020, 2, 25)}
    ELSE {DateTime(2000, 1, 1, 0, 0, 0), DateTime(2020, 1, 1, 0, 0, 0),
          DateTime(2019, 12, 31, 23, 30, 0)}

NoMapping == [called |-> FALSE, m |-> ToMapping(NewRow("daily", <<>>, <<>>, 0), <<>>)]

RowIdle ==
    /\ row = NewRow("daily", <<>>, <<>>, 0)
    /\ mapping_out = NoMapping
    /\ last_browse = "none"

FilesIdle ==
    /\ fs = [p \in Paths |-> UnreadableWb]
    /\ open_handles = 0

InitRow ==
    /\ fs \in [Paths -> Workbooks]
    /\ open_handles = 0
    /\ row \in {NewRow("daily", <<"R">>, <<"r">>, 0), NewRow("hourly", <<>>, <<>>, 1)}
    /\ mapping_out = NoMapping
    /\ last_browse = "none"

\* a handler taking the row to r2: the handles it opened stay open
RowHandler(r2) ==
    /\ open_handles + r2.opened <= MaxHandles
    /\ row' = [r2 EXCEPT !.opened = 0]
    /\ open_handles' = open_handles + r2.opened
    /\ mapping_out' = NoMapping
    /\ UNCHANGED fs
    /\ UNCHANGED notRow

\* last_browse: "none" until a file is chosen, then whether load_workbook
\* opened the chosen file or raised
row_browse_file ==
    \E path \in Paths \cup {<<>>} :
        /\ RowHandler(OnBrowseFile(row, path, fs))
        /\ last_browse' = IF path = <<>> THEN last_browse
                          ELSE IF fs[path].readable THEN "opened" ELSE "open_failed"

row_sheet_selected ==
    \E k \in 1..Len(row.sheet_items) :
        /\ row.sheet_enabled
        /\ k # row.sheet_cur
        /\ RowHandler(SheetSelected(row, k, fs))
        /\ UNCHANGED last_browse

row_column_selected ==
    \E k \in 1..Len(row.col_items) :
        /\ k # row.col_cur
        /\ RowHandler(ColumnSelected(row, k, fs))
        /\ UNCHANGED last_browse

row_spin_changed ==
    \E v \in 1..MaxStartRow :
        /\ v # row.row_spin
        /\ RowHandler(RowSpinChanged(row, v, fs))
        /\ UNCHANGED last_browse

row_start_changed ==
    \E t \in StartValues(row.kind) :
        /\ t # row.start
        /\ RowHandler(StartChanged(row, t, fs))
        /\ UNCHANGED last_browse

row_to_mapping ==
    LET m == ToMapping(row, fs) IN
    /\ open_handles + m.opened <= MaxHandles
    /\ mapping_out' = [called |-> TRUE, m |-> m]
    /\ open_handles' = open_handles + m.opened
    /\ UNCHANGED <<row, fs, last_browse>>
    /\ UNCHANGED notRow

\* the interpreter's collector finalises the workbooks no longer referenced
collect_garbage ==
    /\ open_handles > 0
    /\ open_handles' = 0
    /\ UNCHANGED <<fs, row, mapping_out, last_browse>>
    /\ UNCHANGED notRow

\* the MappingWindow of the row is left alone
NextRow ==
    \/ row_browse_file
    \/ row_sheet_selected
    \/ row_column_selected
    \/ row_spin_changed
    \/ row_start_changed
    \/ row_to_mapping
    \/ collect_garbage

----------------------------------------------------------------------------
(* Specification SpecRowEnv: the same row, the workbook at the first path  *)
(* rewritten by another program between two handlers; every read of the    *)
(* row opens the file anew and sees what is on disk then                   *)

ChangingPath == <<"a.xlsx">>

\* what the other program writes
WrittenWorkbooks == {FullWb, BareWb}

InitRowEnv ==
    /\ fs = [p \in Paths |-> IF p = ChangingPath THEN FullWb ELSE UnreadableWb]
    /\ open_handles = 0
    /\ row \in {NewRow("daily", <<"R">>, <<"r">>, 0), NewRow("hourly", <<>>, <<>>, 1)}
    /\ mapping_out = NoMapping
    /\ last_browse = "none"

workbook_changed ==
    \E wb \in WrittenWorkbooks \ {fs[ChangingPath]} :
        /\ fs' = [fs EXCEPT ![ChangingPath] = wb]
        /\ UNCHANGED <<open_handles, row, mapping_out, last_browse>>
        /\ UNCHANGED notRow

NextRowEnv ==
    \/ row_browse_file
    \/ row_sheet_selected
    \/ row_column_selected
    \/ row_spin_changed
    \/ row_start_changed
    \/ row_to_mapping
    \/ collect_garbage
    \/ workbook_changed

----------------------------------------------------------------------------
(* inflowload.py: MappingWindow                                           *)
(*                                                                         *)
(* win.res_rows and win.pv_rows are the ReservoirRow and PVRow widgets of  *)
(* res_lay and pv_lay in layout order (the stretch items hold no widget    *)
(* and are skipped by every loop); win.res_label is the QLabel shown for a *)
(* topology without reservoirs.  A configuration file is [parses, rivers,  *)
(* data_type]: json.load raises on one that does not parse.                *)

RECURSIVE Flatten(_, _)
\* the concatenation of a sequence of sequences
Flatten(ss, i) == IF i > Len(ss) THEN <<>> ELSE ss[i] \o Flatten(ss, i + 1)

\* dict.get(key, default)
DictGet(d, key, default) == IF key \in DOMAIN d THEN d[key] ELSE default

\* every pair carrying the name of the first river
ExtractReservoirListStaleName(cfg) ==
    LET rivers == DictGet(cfg, "rivers", <<>>) IN
    Flatten([i \in 1..Len(rivers) |->
                LET reservoirs == DictGet(rivers[i], "reservoirs", <<>>) IN
                [j \in 1..Len(reservoirs) |->
                    [river_name |-> DictGet(rivers[1], "river_name", <<>>),
                     reservoir_name |-> reservoirs[j]]]], 1)

\* extract_reservoir_list; str(res) of a name that is a string is that name
ExtractReservoirList(cfg) ==
    LET rivers == DictGet(cfg, "rivers", <<>>) IN
    Flatten([i \in 1..Len(rivers) |->
                LET river_name == DictGet(rivers[i], "river_name", <<>>)
                    reservoirs == DictGet(rivers[i], "reservoirs", <<>>)
                IN [j \in 1..Len(reservoirs) |->
                       [river_name |-> river_name,
                        reservoir_name |-> reservoirs[j]]]], 1)

(* The topology file: to_dict, json.dump, json.load                        *)
(*                                                                         *)
(* A Python value on its way to json.dump is a tagged tree; the file is    *)
(* the sequence of its characters (a key of a dict is kept as a single     *)
(* character-token); json.load reads the characters back into records,     *)
(* sequences, texts and booleans.                                          *)

PyStr(t) == [k |-> "str", s |-> t]
PyBool(b) == [k |-> "bool", b |-> b]
PyList(items) == [k |-> "list", items |-> items]
PyDict(keys, vals) == [k |-> "dict", keys |-> keys, vals |-> vals]

\* Tributary.to_dict
TributaryToDict(t) ==
    PyDict(<<"tributary_name", "insertion_river">>,
           <<PyStr(t.tributary_name), PyStr(t.insertion_river)>>)

\* RiverSystem.to_dict
RiverSystemToDict(sy) ==
    PyDict(<<"river_name", "is_main_stream", "reservoirs", "tributaries">>,
           <<PyStr(sy.river_name), PyBool(sy.is_main_stream),
             PyList([j \in 1..Len(sy.reservoirs) |-> PyStr(sy.reservoirs[j])]),
             PyList([j \in 1..Len(sy.tributaries) |->
                        TributaryToDict(sy.tributaries[j])])>>)

\* ReservoirConfig.to_dict
ReservoirConfigToDict(rivers, data_type) ==
    PyDict(<<"rivers", "data_type">>,
           <<PyList([i \in 1..Len(rivers) |-> RiverSystemToDict(rivers[i])]),
             PyStr(<<data_type>>)>>)

Quote == "\""
Backslash == "\\"
Whitespace == {" ", "\n"}

\* a string as json.dump writes it between its quotes
JsonEscape(t) ==
    Flatten([i \in 1..Len(t) |->
                IF t[i] \in {Quote, Backslash} THEN <<Backslash, t[i]>> ELSE <<t[i]>>], 1)

RECURSIVE JsonDumpValue(_)
RECURSIVE JsonDumpItems(_, _)
RECURSIVE JsonDumpPairs(_, _, _)

\* json.dump(..., indent=4): one item per line
JsonDumpValue(v) ==
    CASE v.k = "str" -> <<Quote>> \o JsonEscape(v.s) \o <<Quote>>
      [] v.k = "bool" -> IF v.b THEN <<"t", "r", "u", "e">>
                         ELSE <<"f", "a", "l", "s", "e">>
      [] v.k = "list" -> IF v.items = <<>> THEN <<"[", "]">>
                         ELSE <<"[", "\n">> \o JsonDumpItems(v.items, 1) \o <<"\n", "]">>
      [] v.k = "dict" -> IF v.keys = <<>> THEN <<"{", "}">>
                         ELSE <<"{", "\n">> \o JsonDumpPairs(v.keys, v.vals, 1)
                                 \o <<"\n", "}">>

JsonDumpItems(items, i) ==
    IF i = Len(items) THEN JsonDumpValue(items[i])
    ELSE JsonDumpValue(items[i]) \o <<",", "\n">> \o JsonDumpItems(items, i + 1)

JsonDumpPairs(keys, vals, i) ==
    LET pair == <<Quote, keys[i], Quote, ":", " ">> \o JsonDumpValue(vals[i])
    IN IF i = Len(keys) THEN pair
       ELSE pair \o <<",", "\n">> \o JsonDumpPairs(keys, vals, i + 1)

RECURSIVE SkipWs(_, _)
SkipWs(cs, i) == IF i <= Len(cs) /\ cs[i] \in Whitespace THEN SkipWs(cs, i + 1) ELSE i

RECURSIVE ParseString(_, _, _)
\* the characters after an opening quote up to the closing one
ParseString(cs, i, acc) ==
    IF cs[i] = Quote THEN [val |-> acc, next |-> i + 1]
    ELSE IF cs[i] = Backslash THEN ParseString(cs, i + 2, Append(acc, cs[i + 1]))
    ELSE ParseString(cs, i + 1, Append(acc, cs[i]))

RECURSIVE ParseValue(_, _)
RECURSIVE ParseList(_, _, _)
RECURSIVE ParseDict(_, _, _)

ParseValue(cs, i) ==
    LET j == SkipWs(cs, i) IN
    CASE cs[j] = Quote -> ParseString(cs, j + 1, <<>>)
      [] cs[j] = "[" -> ParseList(cs, j + 1, <<>>)
      [] cs[j] = "{" -> ParseDict(cs, j + 1, <<>>)
      [] cs[j] = "t" -> [val |-> TRUE, next |-> j + 4]
      [] cs[j] = "f" -> [val |-> FALSE, next |-> j + 5]

ParseList(cs, i, acc) ==
    LET j == SkipWs(cs, i) IN
    IF cs[j] = "]" THEN [val |-> acc, next |-> j + 1]
    ELSE IF cs[j] = "," THEN ParseList(cs, j + 1, acc)
    ELSE LET item == ParseValue(cs, j)
         IN ParseList(cs, item.next, Append(acc, item.val))

\* acc: the pairs read so far; a key read again replaces the earlier one
ParseDict(cs, i, acc) ==
    LET j == SkipWs(cs, i) IN
    IF cs[j] = "}"
    THEN [val |-> [key \in {acc[n][1] : n \in 1..Len(acc)} |->
                      LET last == CHOOSE n \in 1..Len(acc) :
                                      /\ acc[n][1] = key
                                      /\ \A m \in (n + 1)..Len(acc) : acc[m][1] # key
                      IN acc[last][2]],
          next |-> j + 1]
    ELSE IF cs[j] = "," THEN ParseDict(cs, j + 1, acc)
    ELSE LET key == ParseString(cs, j + 1, <<>>)
             colon == SkipWs(cs, key.next)
             item == ParseValue(cs, colon + 1)
         IN ParseDict(cs, item.next, Append(acc, <<key.val[1], item.val>>))

\* save_to_json: the characters of project_config.json
SaveToJson(rivers, data_type) == JsonDumpValue(ReservoirConfigToDict(rivers, data_type))

\* load_river_config on a file holding these characters
LoadRiverConfig(cs) == ParseValue(cs, 1).val

\* lines 511-520: str(data_type).strip() brought to "daily" / "hourly"
DataTypeText(data_type) ==
    LET dt == Strip(data_type) IN
    IF dt = <<"daily">> THEN "daily"
    ELSE IF dt = <<"hourly">> THEN "hourly"
    ELSE IF dt \in {<<"zh-daily-1">>, <<"zh-daily-2">>} THEN "daily"
    ELSE IF dt \in {<<"zh-hourly-1">>, <<"zh-hourly-2">>} THEN "hourly"
    ELSE "daily"

NewWindow ==
    [cfg_path_edit |-> <<>>, data_type_text |-> "daily", btn_save |-> FALSE,
     res_rows |-> <<>>, res_label |-> FALSE,
     enable_pv |-> FALSE, btn_add_pv |-> FALSE, pv_rows |-> <<>>, pv_count |-> 0]

\* _clear_pv_rows
ClearPVRows(w) == [w EXCEPT !.pv_rows = <<>>, !.pv_count = 0]

\* _toggle_pv_area, run by enable_pv_chk.stateChanged
TogglePVArea(w, enabled) ==
    LET w1 == [w EXCEPT !.enable_pv = enabled, !.btn_add_pv = enabled]
    IN IF enabled THEN w1 ELSE ClearPVRows(w1)

\* the new rows put after the old ones, which are not taken away
PopulateKeepOldRows(w, cfg) ==
    LET res_list == ExtractReservoirList(cfg)
    IN IF res_list = <<>> THEN [w EXCEPT !.res_label = TRUE]
       ELSE LET w2 == [w EXCEPT !.res_rows = w.res_rows \o
                          [k \in 1..Len(res_list) |->
                              NewRow("daily", res_list[k].river_name,
                                     res_list[k].reservoir_name, 0)]]
                w3 == IF w2.enable_pv THEN TogglePVArea(w2, FALSE) ELSE w2
            IN ClearPVRows([w3 EXCEPT !.btn_add_pv = FALSE])

\* _populate_reservoir_rows: every widget of res_lay (rows, label) leaves it
\* first
PopulateReservoirRows(w, cfg) ==
    LET res_list == ExtractReservoirList(cfg)
        w1 == [w EXCEPT !.res_rows = <<>>, !.res_label = FALSE]
    IN IF res_list = <<>> THEN [w1 EXCEPT !.res_label = TRUE]
       ELSE LET w2 == [w1 EXCEPT !.res_rows =
                          [k \in 1..Len(res_list) |->
                              NewRow("daily", res_list[k].river_name,
                                     res_list[k].reservoir_name, 0)]]
                w3 == IF w2.enable_pv THEN TogglePVArea(w2, FALSE) ELSE w2
            IN ClearPVRows([w3 EXCEPT !.btn_add_pv = FALSE])

\* the save button enabled by the except branch as well
OnLoadConfigEnableOnFailure(w, path, cfgs) ==
    IF path = <<>> THEN w
    ELSE IF ~cfgs[path].parses THEN [w EXCEPT !.btn_save = TRUE]
    ELSE LET cfg == LoadRiverConfig(cfgs[path].text) IN
         [PopulateReservoirRows(
              [w EXCEPT !.cfg_path_edit = path,
                        !.data_type_text =
                            DataTypeText(DictGet(cfg, "data_type", <<"daily">>))],
              cfg)
            EXCEPT !.btn_save = TRUE]

\* on_load_config with the path the dialog returned (<<>>: cancelled); a
\* file that json.load rejects leaves the window as it was
OnLoadConfig(w, path, cfgs) ==
    IF path = <<>> THEN w
    ELSE IF ~cfgs[path].parses THEN w
    ELSE LET cfg == LoadRiverConfig(cfgs[path].text) IN
         [PopulateReservoirRows(
              [w EXCEPT !.cfg_path_edit = path,
                        !.data_type_text =
                            DataTypeText(DictGet(cfg, "data_type", <<"daily">>))],
              cfg)
            EXCEPT !.btn_save = TRUE]

\* a mapping as it is written: to_mapping's dict
Entry(m) == [k \in DOMAIN m \ {"opened"} |-> m[k]]

RECURSIVE CollectOnlyValid(_, _, _, _, _)
\* the loop leaving out a row that is not valid and going on
CollectOnlyValid(rows, i, f, acc, opened) ==
    IF i > Len(rows) THEN [ok |-> TRUE, bad |-> 0, mappings |-> acc, opened |-> opened]
    ELSE LET m == ToMapping(rows[i], f) IN
         CollectOnlyValid(rows, i + 1, f,
                      IF IsValid(rows[i], f) /\ m.file_path # <<>>
                      THEN Append(acc, Entry(m)) ELSE acc,
                      opened + m.opened + m.opened)

\* on_save_mapping saving the valid rows whatever the others are
OnSaveMappingOthersSaved(w, f, save_path) ==
    LET res == CollectOnlyValid(w.res_rows, 1, f, <<>>, 0)
        pv == IF w.enable_pv THEN CollectOnlyValid(w.pv_rows, 1, f, <<>>, res.opened)
              ELSE [ok |-> TRUE, bad |-> 0, mappings |-> <<>>, opened |-> res.opened]
    IN IF save_path = <<>>
       THEN [kind |-> "cancelled", written |-> FALSE,
             artifact |-> [data_type |-> "", reservoir_inflow_sources |-> <<>>,
                           pv_sources |-> <<>>],
             opened |-> pv.opened]
       ELSE [kind |-> "saved", written |-> TRUE,
             artifact |-> [data_type |-> w.data_type_text,
                           reservoir_inflow_sources |-> res.mappings,
                           pv_sources |-> pv.mappings],
             opened |-> pv.opened]

RECURSIVE CollectSkipInvalid(_, _, _, _, _)
\* the loop passing over a row that is not valid
CollectSkipInvalid(rows, i, f, acc, opened) ==
    IF i > Len(rows) THEN [ok |-> TRUE, bad |-> 0, mappings |-> acc, opened |-> opened]
    ELSE LET m == ToMapping(rows[i], f) IN
         CollectSkipInvalid(rows, i + 1, f,
                      IF m.file_path # <<>> THEN Append(acc, Entry(m)) ELSE acc,
                      opened + m.opened + m.opened)

RECURSIVE Collect(_, _, _, _, _)
\* one loop of on_save_mapping over rows: the mappings gathered, or the
\* first row that is not valid; `opened` counts the workbook reads
Collect(rows, i, f, acc, opened) ==
    IF i > Len(rows) THEN [ok |-> TRUE, bad |-> 0, mappings |-> acc, opened |-> opened]
    ELSE LET m == ToMapping(rows[i], f) IN
         IF ~IsValid(rows[i], f)
         THEN [ok |-> FALSE, bad |-> i, mappings |-> acc, opened |-> opened + m.opened]
         ELSE Collect(rows, i + 1, f,
                      IF m.file_path # <<>> THEN Append(acc, Entry(m)) ELSE acc,
                      opened + m.opened + m.opened)

NoArtifact == [data_type |-> "", reservoir_inflow_sources |-> <<>>, pv_sources |-> <<>>]

NoMapSave == [kind |-> "none", written |-> FALSE, artifact |-> NoArtifact, opened |-> 0]

\* on_save_mapping; save_path is what the save dialog returned
OnSaveMapping(w, f, save_path) ==
    LET res == Collect(w.res_rows, 1, f, <<>>, 0) IN
    IF ~res.ok
    THEN [kind |-> "IncompleteMapping", written |-> FALSE, artifact |-> NoArtifact,
          opened |-> res.opened]
    ELSE LET pv == IF w.enable_pv THEN Collect(w.pv_rows, 1, f, <<>>, res.opened)
                   ELSE [ok |-> TRUE, bad |-> 0, mappings |-> <<>>,
                         opened |-> res.opened]
         IN IF ~pv.ok
            THEN [kind |-> "IncompleteMapping", written |-> FALSE,
                  artifact |-> NoArtifact, opened |-> pv.opened]
            ELSE IF save_path = <<>>
            THEN [kind |-> "cancelled", written |-> FALSE, artifact |-> NoArtifact,
                  opened |-> pv.opened]
            ELSE [kind |-> "saved", written |-> TRUE,
                  artifact |-> [data_type |-> w.data_type_text,
                                reservoir_inflow_sources |-> res.mappings,
                                pv_sources |-> pv.mappings],
                  opened |-> pv.opened]

(* The handlers of the window.  map_out is the outcome of the handler that *)
(* ran last.                                                               *)

\* a river of a saved topology
River(river_name, is_main_stream, reservoirs) ==
    [river_name |-> river_name, is_main_stream |-> is_main_stream,
     reservoirs |-> reservoirs, tributaries |-> <<>>]

\* one river with two reservoirs
TopologyOne == <<River(<<"A">>, TRUE, <<<<"r", "1">>, <<"r", "2">>>>)>>

\* two rivers, the first without reservoirs, the second sharing a reservoir
\* name with TopologyOne
TopologyTwo ==
    <<River(<<"B">>, TRUE, <<>>),
      [River(<<"A">>, FALSE, <<<<"r", "1">>>>) EXCEPT
          !.tributaries = <<[tributary_name |-> <<"A">>, insertion_river |-> <<"B">>]>>]>>

TopologyNoReservoir == <<River(<<"A">>, TRUE, <<>>)>>

ConfigOne == [parses |-> TRUE, text |-> SaveToJson(TopologyOne, "daily")]

ConfigTwo == [parses |-> TRUE, text |-> SaveToJson(TopologyTwo, "zh-hourly-1")]

ConfigNoReservoir == [parses |-> TRUE, text |-> SaveToJson(TopologyNoReservoir, "monthly")]

\* a JSON object without "rivers" and "data_type", such as a saved mapping
ConfigNoRivers ==
    [parses |-> TRUE,
     text |-> JsonDumpValue(PyDict(<<"reservoir_inflow_sources", "pv_sources">>,
                                   <<PyList(<<>>), PyList(<<>>)>>))]

\* a file json.load raises on
ConfigBroken == [parses |-> FALSE, text |-> <<"{", Quote>>]

ConfigPaths ==
    {<<"one.json">>, <<"two.json">>, <<"none.json">>, <<"mapping.json">>,
     <<"broken.json">>}

\* the topology files on disk
ConfigFiles ==
    [p \in ConfigPaths |->
        IF p = <<"one.json">> THEN ConfigOne
        ELSE IF p = <<"two.json">> THEN ConfigTwo
        ELSE IF p = <<"none.json">> THEN ConfigNoReservoir
        ELSE IF p = <<"mapping.json">> THEN ConfigNoRivers
        ELSE ConfigBroken]

\* the workbooks on disk while the window is used
MapFileSystems ==
    {[p \in Paths |-> IF p = <<"a.xlsx">> THEN FullWb ELSE NoSheetWb],
     [p \in Paths |-> IF p = <<"a.xlsx">> THEN BareWb ELSE UnreadableWb],
     [p \in Paths |-> IF p = <<"a.xlsx">> THEN FullWb ELSE BareWb]}

SavePaths == {<<>>, <<"inflow_pv_mapping.json">>}

MapHandler(w2, opened) ==
    /\ open_handles + opened <= MaxHandles
    /\ win' = w2
    /\ open_handles' = open_handles + opened
    /\ map_out' = NoMapSave
    /\ UNCHANGED <<fs, configs, load_log>>
    /\ UNCHANGED notMap

NoLoad == [last |-> "none", succeeded |-> FALSE]

\* load_log.last: "cancelled" when the dialog gave no path, "failed" when
\* the except branch ran, "loaded" when the try block ran to its end
on_load_config ==
    \E path \in ConfigPaths \cup {<<>>} :
        /\ path # <<>> => path \in DOMAIN configs
        /\ win' = OnLoadConfig(win, path, configs)
        /\ load_log' = IF path = <<>> THEN [load_log EXCEPT !.last = "cancelled"]
                       ELSE IF ~configs[path].parses
                       THEN [load_log EXCEPT !.last = "failed"]
                       ELSE [last |-> "loaded", succeeded |-> TRUE]
        /\ map_out' = NoMapSave
        /\ UNCHANGED <<fs, open_handles, configs>>
        /\ UNCHANGED notMap

enable_pv_toggled ==
    \E enabled \in {~win.enable_pv} :
        LET w2 == TogglePVArea(win, enabled)
        IN MapHandler(w2, 0)

on_add_pv_row ==
    /\ win.btn_add_pv
    /\ win.pv_count < MaxPV
    /\ MapHandler([win EXCEPT !.pv_count = win.pv_count + 1,
                             !.pv_rows = Append(win.pv_rows,
                                 NewRow("hourly", <<>>, <<>>, win.pv_count + 1))], 0)

res_row_browse_file ==
    \E i \in 1..Len(win.res_rows), path \in Paths \cup {<<>>} :
        LET r2 == OnBrowseFile(win.res_rows[i], path, fs)
        IN MapHandler([win EXCEPT !.res_rows[i] = [r2 EXCEPT !.opened = 0]], r2.opened)

pv_row_browse_file ==
    \E i \in 1..Len(win.pv_rows), path \in Paths \cup {<<>>} :
        LET r2 == OnBrowseFile(win.pv_rows[i], path, fs)
        IN MapHandler([win EXCEPT !.pv_rows[i] = [r2 EXCEPT !.opened = 0]], r2.opened)

on_save_mapping ==
    \E save_path \in SavePaths :
        LET out == OnSaveMapping(win, fs, save_path) IN
        /\ win.btn_save
        /\ open_handles + out.opened <= MaxHandles
        /\ map_out' = [out EXCEPT !.opened = 0]
        /\ open_handles' = open_handles + out.opened
        /\ UNCHANGED <<win, fs, configs, load_log>>
        /\ UNCHANGED notMap

map_collect_garbage ==
    /\ open_handles > 0
    /\ open_handles' = 0
    /\ UNCHANGED <<fs, configs, win, map_out, load_log>>
    /\ UNCHANGED notMap

MapIdle ==
    /\ configs = ConfigFiles
    /\ win = NewWindow
    /\ map_out = NoMapSave
    /\ load_log = NoLoad

InitMap ==
    /\ configs = ConfigFiles
    /\ fs \in MapFileSystems
    /\ open_handles = 0
    /\ win = NewWindow
    /\ map_out = NoMapSave
    /\ load_log = NoLoad

NextMap ==
    \/ on_load_config
    \/ enable_pv_toggled
    \/ on_add_pv_row
    \/ res_row_browse_file
    \/ pv_row_browse_file
    \/ on_save_mapping
    \/ map_collect_garbage

----------------------------------------------------------------------------
(* Specification SpecTrip: a topology as on_save assembles one (river      *)
(* names distinct and not empty, reservoir names of a river distinct and   *)
(* not empty) written by save_to_json and read back by load_river_config   *)
(* and extract_reservoir_list                                              *)

TripRiverNames == {<<"A", Quote>>, <<"B", " ", "b">>, <<Backslash>>}

TripReservoirNames == {<<"r", Backslash, "1">>, <<"]", ",", Quote>>, <<"{">>}

DistinctSeqs(S, n) ==
    {q \in SeqsUpTo(S, n) : \A i, j \in 1..Len(q) : i # j => q[i] # q[j]}

\* the first river a main stem holding the tributary records of the others
TripRivers(names, reservoirs) ==
    [i \in 1..Len(names) |->
        [river_name |-> names[i],
         is_main_stream |-> (i = 1),
         reservoirs |-> reservoirs[i],
         tributaries |-> IF i = 1
                         THEN [k \in 1..(Len(names) - 1) |->
                                 [tributary_name |-> names[k + 1],
                                  insertion_river |-> names[1]]]
                         ELSE <<>>]]

NoTrip == [called |-> FALSE, file |-> <<>>, pairs |-> <<>>]

TripIdle ==
    /\ trip_in = <<>>
    /\ trip_out = NoTrip

InitTrip ==
    /\ \E names \in DistinctSeqs(TripRiverNames, MaxTripRivers) :
         \E reservoirs \in [1..Len(names) ->
                              DistinctSeqs(TripReservoirNames, MaxTripReservoirs)] :
            trip_in = TripRivers(names, reservoirs)
    /\ trip_out = NoTrip

RunRoundTrip ==
    /\ ~trip_out.called
    /\ LET file == SaveToJson(trip_in, "daily")
       IN trip_out' = [called |-> TRUE, file |-> file,
                       pairs |-> ExtractReservoirList(LoadRiverConfig(file))]
    /\ UNCHANGED trip_in
    /\ UNCHANGED <<notTrip>>

NextTrip == RunRoundTrip

----------------------------------------------------------------------------
(* Specification SpecRiver: add_reservoir and remove_reservoir on one      *)
(* RiverSystem, and the reservoir rows of one RiverGroup, from empty        *)

ReservoirNames == {<<>>, <<"a">>, <<"b">>, <<"c">>}

\* what the user may type into res_name_edit
TypedReservoirNames == {<<>>, <<" ">>, <<"a">>, <<" ", "a">>, <<"b">>, ReservoirHeading}

NoReservoirOp == [op |-> "none", name |-> <<>>, before |-> <<>>]

RiverIdle ==
    /\ sys_reservoirs = <<>>
    /\ res_list_layout = <<>>
    /\ res_op = NoReservoirOp

InitRiver == RiverIdle

add_reservoir ==
    \E name \in ReservoirNames :
        /\ sys_reservoirs' = AddReservoir(sys_reservoirs, name)
        /\ res_op' = [op |-> "add", name |-> name, before |-> sys_reservoirs]
        /\ UNCHANGED res_list_layout
        /\ UNCHANGED notRiver

remove_reservoir ==
    \E name \in ReservoirNames :
        /\ sys_reservoirs' = RemoveReservoir(sys_reservoirs, name)
        /\ res_op' = [op |-> "remove", name |-> name, before |-> sys_reservoirs]
        /\ UNCHANGED res_list_layout
        /\ UNCHANGED notRiver

on_add_reservoir ==
    \E typed \in TypedReservoirNames :
        /\ Len(res_list_layout) < MaxReservoirRows
        /\ res_list_layout' = OnAddReservoir(res_list_layout, typed)
        /\ res_op' = [op |-> "on_add", name |-> typed, before |-> res_list_layout]
        /\ UNCHANGED sys_reservoirs
        /\ UNCHANGED notRiver

remove_reservoir_row ==
    \E i \in 1..Len(res_list_layout) :
        /\ res_list_layout' = RemoveReservoirRow(res_list_layout, i)
        /\ res_op' = [op |-> "row_removed", name |-> res_list_layout[i],
                      before |-> res_list_layout]
        /\ UNCHANGED sys_reservoirs
        /\ UNCHANGED notRiver

NextRiver ==
    \/ add_reservoir
    \/ remove_reservoir
    \/ on_add_reservoir
    \/ remove_reservoir_row

----------------------------------------------------------------------------
(* Specification SpecOrder: the topology editor with rivers added,        *)
(* deleted and retyped and reservoirs added and removed, the names of the  *)
(* rivers left to their defaults                                           *)

\* what the user types into res_name_edit here
OrderReservoirNames == {<<"a">>, <<" ", "b">>}

RECURSIVE TotalReservoirRows(_, _)
TotalReservoirRows(groups, i) ==
    IF i > Len(groups) THEN 0
    ELSE Len(groups[i].reservoirs) + TotalReservoirRows(groups, i + 1)

group_add_reservoir ==
    \E i \in 1..Len(river_groups), typed \in OrderReservoirNames :
        /\ TotalReservoirRows(river_groups, 1) < MaxReservoirRows
        /\ river_groups' = [river_groups EXCEPT
                              ![i].reservoirs = OnAddReservoir(@, typed)]
        /\ save_out' = NoSave
        /\ UNCHANGED notTopo

group_remove_reservoir ==
    \E i \in 1..Len(river_groups) :
        \E k \in 1..Len(river_groups[i].reservoirs) :
            /\ river_groups' = [river_groups EXCEPT
                                  ![i].reservoirs = RemoveReservoirRow(@, k)]
            /\ save_out' = NoSave
            /\ UNCHANGED notTopo

NextOrder ==
    \/ add_river_group
    \/ delete_river_group
    \/ on_type_changed
    \/ select_insert_target
    \/ group_add_reservoir
    \/ group_remove_reservoir
    \/ on_save

----------------------------------------------------------------------------
(* Specification SpecCycle: _has_cycle applied to every bounded edge list  *)

Nodes == {"A", "B", "C"}

CycleIdle ==
    /\ edges = <<>>
    /\ cycle_out = [called |-> FALSE, result |-> FALSE]

InitCycle ==
    /\ edges \in SeqsUpTo(Nodes \X Nodes, MaxEdges)
    /\ cycle_out = [called |-> FALSE, result |-> FALSE]

RunHasCycle ==
    /\ ~cycle_out.called
    /\ cycle_out' = [called |-> TRUE, result |-> HasCycle(edges)]
    /\ UNCHANGED edges
    /\ UNCHANGED notCycle

NextCycle == RunHasCycle

----------------------------------------------------------------------------
(* The specifications.  Each runs one component; the variables of the     *)
(* others rest at their idle values.                                       *)

\* Spec: the topology editor, from an empty ConfigWindow
Init == InitTopo /\ CycleIdle /\ ScanIdle /\ FilesIdle /\ RowIdle /\ MapIdle /\ TripIdle /\ RiverIdle

Next == NextTopo

Spec == Init /\ [][Next]_vars

\* SpecCycle: _has_cycle on its own
InitOfCycle == InitCycle /\ InitTopo /\ ScanIdle /\ FilesIdle /\ RowIdle /\ MapIdle /\ TripIdle /\ RiverIdle

SpecCycle == InitOfCycle /\ [][NextCycle]_vars

\* SpecScan: find_last_non_empty_row on its own
InitOfScan == InitScan /\ CycleIdle /\ InitTopo /\ FilesIdle /\ RowIdle /\ MapIdle /\ TripIdle /\ RiverIdle

SpecScan == InitOfScan /\ [][NextScan]_vars

\* SpecRow: one ReservoirRow or PVRow and the workbooks it reads
InitOfRow == InitRow /\ CycleIdle /\ InitTopo /\ ScanIdle /\ MapIdle /\ TripIdle /\ RiverIdle

SpecRow == InitOfRow /\ [][NextRow]_vars

\* SpecRowEnv: one mapping row edited by the user while the workbook at the
\* first path is rewritten on disk
InitOfRowEnv ==
    InitRowEnv /\ CycleIdle /\ InitTopo /\ ScanIdle /\ MapIdle /\ TripIdle /\ RiverIdle

SpecRowEnv == InitOfRowEnv /\ [][NextRowEnv]_vars

\* SpecTrip: a topology saved and read back
InitOfTrip ==
    InitTrip /\ CycleIdle /\ InitTopo /\ ScanIdle /\ FilesIdle /\ RowIdle /\ MapIdle
        /\ RiverIdle

SpecTrip == InitOfTrip /\ [][NextTrip]_vars

\* SpecRiver: the reservoirs of one river
InitOfRiver ==
    InitRiver /\ CycleIdle /\ InitTopo /\ ScanIdle /\ FilesIdle /\ RowIdle /\ MapIdle
        /\ TripIdle

SpecRiver == InitOfRiver /\ [][NextRiver]_vars

\* SpecOrder: the topology editor with reservoirs, default river names
SpecOrder == Init /\ [][NextOrder]_vars

\* SpecMap: the MappingWindow with its rows
InitOfMap == InitMap /\ CycleIdle /\ InitTopo /\ ScanIdle /\ RowIdle /\ TripIdle /\ RiverIdle

SpecMap == InitOfMap /\ [][NextMap]_vars

----------------------------------------------------------------------------
(* C1 *)

RECURSIVE Closure(_)
\* transitive closure of a set of pairs
Closure(R) ==
    LET joined == R \cup {<<pq[1][1], pq[2][2]>> :
                            pq \in {x \in R \X R : x[1][2] = x[2][1]}}
    IN IF joined = R THEN R ELSE Closure(joined)

ContainsDirectedCycle(es) == \E e \in Closure(Range(es)) : e[1] = e[2]

\* C1: _has_cycle(edges) is true exactly when the edge list contains a
\* directed cycle; a self-loop and the 3-cycle A->B->C->A give true, a
\* diamond (two tributaries into one shared target) gives false.
C1_HasCycleIffCycle ==
    cycle_out.called =>
        /\ cycle_out.result = ContainsDirectedCycle(edges)
        /\ (edges = <<<<"A", "A">>>> => cycle_out.result)
        /\ (edges = <<<<"A", "B">>, <<"B", "C">>, <<"C", "A">>>> => cycle_out.result)
        /\ (edges = <<<<"A", "C">>, <<"B", "C">>>> => ~cycle_out.result)

\* the 3-cycle has been analysed and reported
C1_Witness ==
    /\ cycle_out.called
    /\ edges = <<<<"A", "B">>, <<"B", "C">>, <<"C", "A">>>>
    /\ cycle_out.result

----------------------------------------------------------------------------
(* C2, C3: save-time validation of the topology *)

DeclaredNames == {GetRiverName(river_groups[i]) : i \in 1..Len(river_groups)}

SomeDuplicateName ==
    \E i, j \in 1..Len(river_groups) :
        i # j /\ GetRiverName(river_groups[i]) = GetRiverName(river_groups[j])

TributaryGroups == {i \in 1..Len(river_groups) : river_groups[i].is_trib}

SomeDanglingTarget ==
    \E i \in TributaryGroups :
        Strip(CurrentTarget(river_groups[i])) \notin DeclaredNames

TributaryEdgeSet ==
    {<<GetRiverName(river_groups[i]), Strip(CurrentTarget(river_groups[i]))>> :
        i \in TributaryGroups}

SomeCycle == \E e \in Closure(TributaryEdgeSet) : e[1] = e[2]

\* C2: validation runs duplicate names, then dangling targets, then cycle
\* detection, and reports the first failing kind only: with no duplicated
\* name, a tributary whose target is undeclared makes on_save report
\* DanglingReference without cycle detection having run.
C2_DanglingBeforeCycle ==
    save_out.kind # "none" =>
        /\ (SomeDuplicateName =>
              save_out.kind = "DuplicateName" /\ ~save_out.cycle_checked)
        /\ (~SomeDuplicateName /\ SomeDanglingTarget =>
              save_out.kind = "DanglingReference" /\ ~save_out.cycle_checked)
        /\ (save_out.kind \in {"TopologyCycle", "saved"} =>
              ~SomeDuplicateName /\ ~SomeDanglingTarget /\ save_out.cycle_checked)

\* a save was refused for a tributary whose target is no declared river
C2_Witness ==
    /\ save_out.kind = "DanglingReference"
    /\ ~SomeDuplicateName
    /\ SomeDanglingTarget

ArtifactNames == {save_out.artifact[i].river_name : i \in 1..Len(save_out.artifact)}

ArtifactEdgeSet ==
    UNION {{<<t.tributary_name, t.insertion_river>> :
                t \in Range(save_out.artifact[i].tributaries)} :
           i \in 1..Len(save_out.artifact)}

\* C3: on_save writes the artifact exactly when the three validations pass;
\* a refused save writes nothing and attaches no tributary to any river; a
\* written artifact has pairwise distinct river names, every tributary
\* nested under the declared river it names, and an acyclic
\* tributary -> target graph.
C3_SaveIffValid ==
    save_out.kind # "none" =>
        /\ (save_out.kind = "saved") <=>
              (~SomeDuplicateName /\ ~SomeDanglingTarget /\ ~SomeCycle)
        /\ (save_out.kind # "saved" =>
              /\ save_out.artifact = <<>>
              /\ \A sy \in Range(save_out.systems) : sy.tributaries = <<>>)
        /\ (save_out.kind = "saved" =>
              /\ Len(save_out.artifact) = Len(river_groups)
              /\ \A i, j \in 1..Len(save_out.artifact) :
                    i # j => save_out.artifact[i].river_name
                                # save_out.artifact[j].river_name
              /\ \A i \in 1..Len(save_out.artifact) :
                    \A t \in Range(save_out.artifact[i].tributaries) :
                        /\ t.insertion_river = save_out.artifact[i].river_name
                        /\ t.tributary_name \in ArtifactNames
              /\ ArtifactEdgeSet = TributaryEdgeSet
              /\ ~(\E e \in Closure(ArtifactEdgeSet) : e[1] = e[2]))

\* a save was refused because the tributaries form a cycle
C3_Witness ==
    /\ save_out.kind = "TopologyCycle"
    /\ SomeCycle
    /\ save_out.artifact = <<>>

\* a topology with a tributary was written
C3_WitnessSaved ==
    /\ save_out.kind = "saved"
    /\ TributaryGroups # {}

\* in the editor a dangling target never comes together with a cycle
DanglingExcludesCycle ==
    (~SomeDuplicateName /\ SomeDanglingTarget) => ~SomeCycle

----------------------------------------------------------------------------
(* C4: the column scan *)

ScannedColumn == scan_in.wb.sheets[1].cols[1]

PopulatedRows(col) == {r \in 1..Len(col) : ~col[r].null /\ Strip(col[r].text) # <<>>}

ScanApplies ==
    scan_out.called /\ scan_in.wb.readable /\ scan_in.sheet_name = <<"S">>

\* C4: find_last_non_empty_row returns the greatest row whose cell is
\* non-null and non-blank after trimming, whatever blank cells lie between
\* populated ones (rows 3 and 5-9 populated gives 9), and None when the
\* column has no such cell.
C4_LastPopulatedRow ==
    ScanApplies =>
        /\ scan_out.none <=> (PopulatedRows(ScannedColumn) = {})
        /\ (~scan_out.none =>
              /\ scan_out.row \in PopulatedRows(ScannedColumn)
              /\ \A r \in PopulatedRows(ScannedColumn) : r <= scan_out.row)
        /\ (ScannedColumn = ExampleColumn => ~scan_out.none /\ scan_out.row = 9)

\* the example column has been scanned
C4_Witness ==
    /\ ScanApplies
    /\ ScannedColumn = ExampleColumn
    /\ scan_out.row = 9

----------------------------------------------------------------------------
(* C5 - C9: range inference on one mapping row *)

RECURSIVE DaysBeforeMonth(_, _)
DaysBeforeMonth(y, m) ==
    IF m = 1 THEN 0 ELSE DaysBeforeMonth(y, m - 1) + DaysInMonth(y, m - 1)

\* the day number of a date in the proleptic Gregorian calendar
DayNumber(y, m, d) ==
    365 * (y - 1) + ((y - 1) \div 4) - ((y - 1) \div 100) + ((y - 1) \div 400)
        + DaysBeforeMonth(y, m) + d

\* a printed date or date-time, counted in days or in hours
UnitNumber(kind, fields) ==
    IF kind = "daily" THEN DayNumber(fields[1], fields[2], fields[3])
    ELSE 24 * DayNumber(fields[1], fields[2], fields[3]) + fields[4]

\* the row's locator names a readable workbook, one of its sheets and a column
LocatorResolves ==
    /\ Strip(row.file_edit) # <<>>
    /\ fs[Strip(row.file_edit)].readable
    /\ HasSheet(fs[Strip(row.file_edit)], Strip(SheetText(row)))
    /\ row.col_cur # 0

LocatedSheet == SheetOf(fs[Strip(row.file_edit)], Strip(SheetText(row)))

PopulatedInColumn ==
    {r \in 1..LocatedSheet.max_row :
        LET v == CellAt(LocatedSheet, r, ColIndex(row))
        IN ~v.null /\ Strip(v.text) # <<>>}

LastPopulated == CHOOSE r \in PopulatedInColumn : \A q \in PopulatedInColumn : q <= r

\* the range is determinate: a populated cell lies at or after the start row
Determinate ==
    /\ LocatorResolves
    /\ \E r \in PopulatedInColumn : r >= row.row_spin

ExampleLocated ==
    /\ LocatorResolves
    /\ fs[Strip(row.file_edit)] = FullWb
    /\ Strip(SheetText(row)) = SheetS1
    /\ ColIndex(row) = 1

HourlyLocated ==
    /\ LocatorResolves
    /\ fs[Strip(row.file_edit)] = FullWb
    /\ Strip(SheetText(row)) = SheetS2
    /\ ColIndex(row) = 1

\* C5: when the last populated row is at or after the start row, the
\* record count of the mapping entry (reservoir or PV) is
\* last_row - start_row + 1, at least 1; rows 3 and 5-9 populated with
\* start_row 3 give 7.
C5_RecordCount ==
    (mapping_out.called /\ Determinate) =>
        /\ ~mapping_out.m.record_count.null
        /\ mapping_out.m.record_count.n = LastPopulated - row.row_spin + 1
        /\ mapping_out.m.record_count.n >= 1
        /\ (ExampleLocated /\ row.row_spin = 3 => mapping_out.m.record_count.n = 7)

\* the example column mapped from row 3 on
C5_Witness ==
    /\ mapping_out.called
    /\ ExampleLocated
    /\ row.row_spin = 3
    /\ mapping_out.m.record_count.n = 7

\* C6: for a determinate range the end value is the start value advanced
\* by exactly record_count - 1 units, days for a reservoir row and hours
\* for a PV row; 2020-01-01 with 7 daily records ends 2020-01-07,
\* 2020-01-01T00:00:00 with 25 hourly records ends 2020-01-02T00:00:00.
C6_EndFromCount ==
    (mapping_out.called /\ ~mapping_out.m.end.null) =>
        /\ ~mapping_out.m.record_count.null
        /\ UnitNumber(row.kind, mapping_out.m.end.fields)
              = UnitNumber(row.kind, mapping_out.m.start)
                  + (mapping_out.m.record_count.n - 1)
        /\ (row.kind = "hourly" =>
              /\ mapping_out.m.end.fields[5] = mapping_out.m.start[5]
              /\ mapping_out.m.end.fields[6] = mapping_out.m.start[6])
        /\ (mapping_out.m.record_count.n = 1 =>
              mapping_out.m.end.fields = mapping_out.m.start)
        /\ (row.kind = "daily" /\ mapping_out.m.start = <<2020, 1, 1>>
                /\ mapping_out.m.record_count.n = 7 =>
              mapping_out.m.end.fields = <<2020, 1, 7>>)
        /\ (row.kind = "hourly" /\ mapping_out.m.start = <<2020, 1, 1, 0, 0, 0>>
                /\ mapping_out.m.record_count.n = 25 =>
              mapping_out.m.end.fields = <<2020, 1, 2, 0, 0, 0>>)

\* 25 hourly records from 2020-01-01T00:00:00 have been mapped
C6_Witness ==
    /\ mapping_out.called
    /\ row.kind = "hourly"
    /\ mapping_out.m.start = <<2020, 1, 1, 0, 0, 0>>
    /\ mapping_out.m.record_count.n = 25
    /\ mapping_out.m.end.fields = <<2020, 1, 2, 0, 0, 0>>

\* 7 daily records from 2020-01-01 have been mapped
C6_WitnessDaily ==
    /\ mapping_out.called
    /\ row.kind = "daily"
    /\ mapping_out.m.start = <<2020, 1, 1>>
    /\ mapping_out.m.record_count.n = 7
    /\ mapping_out.m.end.fields = <<2020, 1, 7>>

\* C7: when the column has no populated cell at or after the start row, or
\* the workbook or the sheet cannot be opened, the result is indeterminate:
\* to_mapping returns normally with no end value and no record count.
C7_Indeterminate ==
    (mapping_out.called /\ Strip(row.file_edit) # <<>> /\ ~Determinate) =>
        /\ mapping_out.m.end.null
        /\ mapping_out.m.record_count.null

\* the start row lies beyond the last populated row of the example column
C7_Witness ==
    /\ mapping_out.called
    /\ ExampleLocated
    /\ row.row_spin > LastPopulated
    /\ mapping_out.m.end.null
    /\ mapping_out.m.record_count.null

\* the chosen workbook could not be opened
C7_WitnessUnreadable ==
    /\ mapping_out.called
    /\ Strip(row.file_edit) # <<>>
    /\ ~fs[Strip(row.file_edit)].readable
    /\ mapping_out.m.end.null

\* the end value the inference gives for the row's current inputs
InferredEnd ==
    IF Determinate
    THEN [null |-> FALSE,
          fields |-> IF row.kind = "daily"
                     THEN FormatDate(AddDays(row.start, LastPopulated - row.row_spin))
                     ELSE FormatDateTime(AddHours(row.start,
                                                  LastPopulated - row.row_spin))]
    ELSE NullValue

DisplayedEnd ==
    IF row.end_label.tag = "value"
    THEN [null |-> FALSE, fields |-> row.end_label.fields]
    ELSE NullValue

\* C8: with the workbook contents unchanged, after any sequence of edit
\* events the displayed end value is the inference applied to the row's
\* current file, sheet, column, start row and start value.
C8_DisplayedIsCurrent == DisplayedEnd = InferredEnd

\* a start row other than the initial one is displayed with its own end
C8_Witness ==
    /\ ExampleLocated
    /\ row.row_spin = 5
    /\ row.start # DefaultStart(row.kind)
    /\ row.end_label.tag = "value"

\* C9: every workbook handle a read opened is released when the read
\* returns, so that no handle is open between two handlers.
C9_HandlesReleased == open_handles = 0

----------------------------------------------------------------------------
(* C10 is stated on the widgets of the window, not on to_mapping's dicts:  *)
(* a row has a path when its file field holds text, and lacks a sheet or a *)
(* column when the combo box has no current entry (or a blank one).        *)

HasPath(r) == Strip(r.file_edit) # <<>>

LacksSheetOrColumn(r) ==
    \/ r.sheet_cur = 0
    \/ Strip(r.sheet_items[r.sheet_cur]) = <<>>
    \/ r.col_cur = 0

\* the rows on_save_mapping goes through
WindowRows == win.res_rows \o win.pv_rows

RowIdent(r) == <<r.kind, r.river_name, r.reservoir_name, r.pv_index, Strip(r.file_edit)>>

EntryIdent(m) == <<m.time_scale, m.river_name, m.reservoir_name, m.pv_index, m.file_path>>

IdentsOf(rows) ==
    LET kept == SelectSeq(rows, HasPath) IN [i \in 1..Len(kept) |-> RowIdent(kept[i])]

EntryComplete(m) ==
    /\ m.file_path # <<>>
    /\ m.sheet_name # <<>>
    /\ m.column_letter # <<>> /\ m.column_index >= 1
    /\ m.start # <<>>

SaveRan == map_out.kind # "none"

\* C10: when on_save_mapping has run, (1) a row with a path but no sheet or
\* no column makes it end in IncompleteMapping with nothing written; (2)
\* without such a row it raises nothing, and rows with an empty path do not
\* stop it; (3) what it writes holds exactly the rows that have a path, in
\* order, each with a path, a sheet, a column and a start value.
C10_SaveMappingEntries ==
    SaveRan =>
        /\ (\E i \in 1..Len(WindowRows) :
                HasPath(WindowRows[i]) /\ LacksSheetOrColumn(WindowRows[i]))
             => (map_out.kind = "IncompleteMapping" /\ ~map_out.written)
        /\ (\A i \in 1..Len(WindowRows) :
                HasPath(WindowRows[i]) => ~LacksSheetOrColumn(WindowRows[i]))
             => map_out.kind \in {"saved", "cancelled"}
        /\ map_out.written =>
             LET inflow == map_out.artifact.reservoir_inflow_sources
                 pv == map_out.artifact.pv_sources
             IN /\ \A i \in 1..Len(inflow) : EntryComplete(inflow[i])
                /\ \A i \in 1..Len(pv) : EntryComplete(pv[i])
                /\ [i \in 1..Len(inflow) |-> EntryIdent(inflow[i])] = IdentsOf(win.res_rows)
                /\ [i \in 1..Len(pv) |-> EntryIdent(pv[i])] = IdentsOf(win.pv_rows)

\* a mapping was written from a window holding a row without a path and a
\* row with one
C10_Witness ==
    /\ map_out.written
    /\ \E i \in 1..Len(WindowRows) : ~HasPath(WindowRows[i])
    /\ Len(map_out.artifact.reservoir_inflow_sources) >= 1

\* a save was refused for a row that has a path and a sheet but no column,
\* standing after a complete row
C10_WitnessRejected ==
    /\ map_out.kind = "IncompleteMapping"
    /\ \E i \in 1..Len(WindowRows) :
          /\ HasPath(WindowRows[i])
          /\ WindowRows[i].sheet_cur # 0 /\ WindowRows[i].col_cur = 0
          /\ \E j \in 1..(i - 1) :
                HasPath(WindowRows[j]) /\ ~LacksSheetOrColumn(WindowRows[j])

\* rows of the photovoltaic area exist only while the area is enabled, so
\* on_save_mapping passes over no row of the window
PVRowsOnlyWhenEnabled == win.pv_rows # <<>> => win.enable_pv

----------------------------------------------------------------------------
(* C11 *)

IncompleteRow(r) == HasPath(r) /\ LacksSheetOrColumn(r)

CompleteRow(r) == HasPath(r) /\ ~LacksSheetOrColumn(r)

SomeIncompleteRow == \E i \in 1..Len(WindowRows) : IncompleteRow(WindowRows[i])

SomeCompleteRow == \E i \in 1..Len(WindowRows) : CompleteRow(WindowRows[i])

CompleteIdents(rows) ==
    LET kept == SelectSeq(rows, CompleteRow) IN [i \in 1..Len(kept) |-> RowIdent(kept[i])]

\* C11 as stated: an incomplete row keeps only its own entry out; when
\* on_save_mapping has run past the dialog or stopped on a row, the complete
\* rows of the window are written.
C11_OthersStillSaved ==
    (SaveRan /\ map_out.kind # "cancelled" /\ SomeCompleteRow) =>
        /\ map_out.written
        /\ [i \in 1..Len(map_out.artifact.reservoir_inflow_sources) |->
               EntryIdent(map_out.artifact.reservoir_inflow_sources[i])]
             = CompleteIdents(win.res_rows)

\* C11 amended: an incomplete row blocks the whole save.  on_save_mapping
\* ends in IncompleteMapping exactly when some row of the window is
\* incomplete, and then writes no entry at all, the complete rows' included;
\* it asks for no save path before that.
C11_IncompleteBlocksAll ==
    SaveRan =>
        /\ (map_out.kind = "IncompleteMapping") = SomeIncompleteRow
        /\ SomeIncompleteRow =>
              /\ ~map_out.written
              /\ map_out.artifact.reservoir_inflow_sources = <<>>
              /\ map_out.artifact.pv_sources = <<>>

\* a save was refused in a window whose first row is incomplete and whose
\* second row is complete
C11_Witness ==
    /\ map_out.kind = "IncompleteMapping"
    /\ Len(win.res_rows) >= 2
    /\ IncompleteRow(win.res_rows[1])
    /\ CompleteRow(win.res_rows[2])

----------------------------------------------------------------------------
(* C12 *)

RECURSIVE ReservoirsBefore(_, _)
\* how many reservoirs the rivers before river i hold
ReservoirsBefore(rivers, i) ==
    IF i <= 1 THEN 0
    ELSE ReservoirsBefore(rivers, i - 1) + Len(rivers[i - 1].reservoirs)

\* C12: the list read back from the written file holds, for every river i
\* and every reservoir j of it, the pair (river name, reservoir name) at the
\* place the original order gives it, and nothing else.
C12_RoundTrip ==
    trip_out.called =>
        /\ Len(trip_out.pairs) = ReservoirsBefore(trip_in, Len(trip_in) + 1)
        /\ \A i \in 1..Len(trip_in) : \A j \in 1..Len(trip_in[i].reservoirs) :
              LET p == trip_out.pairs[ReservoirsBefore(trip_in, i) + j]
              IN /\ p.river_name = trip_in[i].river_name
                 /\ p.reservoir_name = trip_in[i].reservoirs[j]

\* a file was read back that holds two rivers with reservoirs, with a quote
\* and a backslash among the names
C12_Witness ==
    /\ trip_out.called
    /\ Len(trip_in) = 2
    /\ Len(trip_in[1].reservoirs) = 2 /\ Len(trip_in[2].reservoirs) >= 1
    /\ \E i \in 1..Len(trip_out.pairs) :
          /\ Quote \in Range(trip_out.pairs[i].river_name)
          /\ Backslash \in Range(trip_out.pairs[i].reservoir_name)

----------------------------------------------------------------------------
(* C13 *)

\* the rivers of the topology whose file the window loaded last, by the
\* path on_load_config left in cfg_path_edit
LoadedTopology ==
    IF win.cfg_path_edit = <<"one.json">> THEN TopologyOne
    ELSE IF win.cfg_path_edit = <<"two.json">> THEN TopologyTwo
    ELSE IF win.cfg_path_edit = <<"none.json">> THEN TopologyNoReservoir
    ELSE <<>>

\* C13: the reservoir rows of the window are, in order, the reservoirs of
\* the topology loaded last: row ReservoirsBefore(i) + j stands for
\* reservoir j of river i, and there are no other rows.
C13_RowsAreLoadedTopology ==
    /\ Len(win.res_rows) = ReservoirsBefore(LoadedTopology, Len(LoadedTopology) + 1)
    /\ \A i \in 1..Len(LoadedTopology) :
          \A j \in 1..Len(LoadedTopology[i].reservoirs) :
             LET r == win.res_rows[ReservoirsBefore(LoadedTopology, i) + j]
             IN /\ r.river_name = LoadedTopology[i].river_name
                /\ r.reservoir_name = LoadedTopology[i].reservoirs[j]

\* the window shows the one row of two.json after a row was given a file
\* under an earlier topology
C13_Witness ==
    /\ win.cfg_path_edit = <<"two.json">>
    /\ Len(win.res_rows) = 1
    /\ win.res_rows[1].river_name = <<"A">>
    /\ win.res_rows[1].file_edit = <<>>
    /\ open_handles > 0

----------------------------------------------------------------------------
(* C14 *)

NoDuplicate(q) == \A i, j \in 1..Len(q) : i # j => q[i] # q[j]

\* C14: the reservoir list of a river grown from empty never holds a name
\* twice (the RiverSystem's list, and the names read from a RiverGroup's
\* rows); add_reservoir of an empty name or of a name the river has changes
\* nothing and a new name goes to the end; remove_reservoir of a name the
\* river lacks changes nothing and otherwise leaves the other names in
\* their order.
C14_ReservoirsUnique ==
    /\ NoDuplicate(sys_reservoirs)
    /\ NoDuplicate(GetReservoirNames(res_list_layout))
    /\ res_op.op = "add" =>
          IF res_op.name = <<>> \/ res_op.name \in Range(res_op.before)
          THEN sys_reservoirs = res_op.before
          ELSE sys_reservoirs = res_op.before \o <<res_op.name>>
    /\ res_op.op = "remove" =>
          sys_reservoirs = SelectSeq(res_op.before, LAMBDA n : n # res_op.name)

\* a name was taken from the middle of three, and a second add of a name
\* the river has was refused
C14_Witness ==
    \/ /\ res_op.op = "remove"
       /\ Len(res_op.before) = 3 /\ res_op.before[2] = res_op.name
       /\ Len(sys_reservoirs) = 2
    \/ /\ res_op.op = "add"
       /\ Len(res_op.before) = 2 /\ res_op.name = res_op.before[1]
       /\ sys_reservoirs = res_op.before

----------------------------------------------------------------------------
(* C15 *)

\* what identifies a group across the handlers that refresh its combo
SameGroup(g, h) == g.title = h.title /\ g.name_edit = h.name_edit

\* the reservoir rows of a group are kept, or gain one at the end, or lose
\* one with the others in their order
RowsKeepOrder(old, new) ==
    \/ new = old
    \/ Len(new) = Len(old) + 1 /\ SubSeq(new, 1, Len(old)) = old
    \/ \E k \in 1..Len(old) :
          new = SubSeq(old, 1, k - 1) \o SubSeq(old, k + 1, Len(old))

\* one step of the editor: a river comes in at the end, or one goes and
\* the others close ranks, or the rivers stay as they stand
GroupsKeepOrder ==
    LET old == river_groups
        new == river_groups'
    IN \/ /\ Len(new) = Len(old) + 1
          /\ \A i \in 1..Len(old) :
                SameGroup(new[i], old[i]) /\ new[i].reservoirs = old[i].reservoirs
          /\ new[Len(new)].reservoirs = <<>>
       \/ /\ Len(new) = Len(old) - 1
          /\ \E k \in 1..Len(old) :
                /\ \A i \in 1..(k - 1) :
                      SameGroup(new[i], old[i]) /\ new[i].reservoirs = old[i].reservoirs
                /\ \A i \in k..Len(new) :
                      SameGroup(new[i], old[i + 1])
                      /\ new[i].reservoirs = old[i + 1].reservoirs
       \/ /\ Len(new) = Len(old)
          /\ \A i \in 1..Len(old) :
                SameGroup(new[i], old[i])
                /\ RowsKeepOrder(old[i].reservoirs, new[i].reservoirs)

\* the place in river_groups of the group with this name
GroupPlace(name) == CHOOSE i \in 1..Len(river_groups) : GetRiverName(river_groups[i]) = name

\* the written rivers follow river_groups, the reservoirs of each follow
\* its rows, and the tributary records under a river follow the places of
\* the tributaries' own groups
ArtifactFollowsWindow ==
    save_out.kind = "saved" =>
        /\ Len(save_out.artifact) = Len(river_groups)
        /\ \A i \in 1..Len(river_groups) :
              LET a == save_out.artifact[i]
                  g == river_groups[i]
              IN /\ a.river_name = GetRiverName(g)
                 /\ a.reservoirs =
                       SelectSeq([k \in 1..Len(g.reservoirs) |-> Strip(g.reservoirs[k])],
                                 LAMBDA n : n # <<>>)
                 /\ {a.tributaries[k].tributary_name : k \in 1..Len(a.tributaries)}
                       = {GetRiverName(h) : h \in
                            {h \in Range(river_groups) :
                                h.is_trib /\ Strip(CurrentTarget(h)) = a.river_name}}
                 /\ \A k, l \in 1..Len(a.tributaries) :
                       k < l => GroupPlace(a.tributaries[k].tributary_name)
                                  < GroupPlace(a.tributaries[l].tributary_name)

\* C15: rivers and reservoirs stand in the window in the order they were
\* added, whatever is added or deleted in between, and a save writes them
\* in that order, the tributary records of a river in the order of the
\* tributaries' own rivers.
C15_InsertionOrder == []ArtifactFollowsWindow /\ [][GroupsKeepOrder]_vars

\* a save wrote three rivers, the second one holding two reservoirs and
\* the tributary records of the two others
C15_Witness ==
    /\ save_out.kind = "saved"
    /\ Len(save_out.artifact) = 3
    /\ Len(save_out.artifact[2].reservoirs) = 2
    /\ Len(save_out.artifact[2].tributaries) = 2

\* a save wrote the two rivers left after the first one was deleted, the
\* later one holding a reservoir
C15_WitnessAfterDelete ==
    /\ save_out.kind = "saved"
    /\ Len(save_out.artifact) = 2
    /\ river_groups[1].title = 2 /\ river_groups[2].title = 3
    /\ Len(save_out.artifact[2].reservoirs) = 1

----------------------------------------------------------------------------
(* C16 *)

\* what a row shows: the end label and the file path
Observable(r) == <<r.end_label, Strip(r.file_edit)>>

\* what a row shows before any file is chosen
NoFileObservable == Observable(NewRow(row.kind, row.river_name, row.reservoir_name,
                                      row.pv_index))

\* C16: as long as no file was chosen the row shows the dash and no path,
\* whatever else is edited; once the chosen workbook failed to open the row
\* never shows that pair, up to the next file choice.
C16_FailureDistinguishable ==
    /\ last_browse = "none" => Observable(row) = NoFileObservable
    /\ last_browse = "open_failed" => Observable(row) # NoFileObservable

\* a workbook failed to open after another had been opened and given an
\* end value, and the start row was edited after the failure
C16_Witness ==
    /\ last_browse = "open_failed"
    /\ row.sheet_items = <<>>
    /\ row.row_spin > 1
    /\ row.end_label = DashLabel

----------------------------------------------------------------------------
(* C17 *)

\* C17: in the entry to_mapping returns the end value is null exactly when
\* the record count is null, and an end value lies record_count - 1 units
\* after the start value, also when the workbook was rewritten between the
\* last edit of the row and the call.
C17_DerivedConsistent ==
    mapping_out.called =>
        /\ mapping_out.m.end.null <=> mapping_out.m.record_count.null
        /\ (~mapping_out.m.end.null /\ ~mapping_out.m.record_count.null =>
              UnitNumber(mapping_out.m.time_scale, mapping_out.m.end.fields)
                = UnitNumber(mapping_out.m.time_scale, mapping_out.m.start)
                    + (mapping_out.m.record_count.n - 1))

----------------------------------------------------------------------------
(* C18 *)

NoTypedName == \A i \in 1..Len(river_groups) : Strip(river_groups[i].name_edit) = <<>>

\* C18: while no name has been typed, the effective names of the current
\* rivers, their default names, are pairwise distinct after any sequence
\* of add-river and delete-river operations, and no save is rejected as
\* DuplicateName.
C18_DefaultNamesDistinct ==
    NoTypedName =>
        /\ \A i, j \in 1..Len(river_groups) :
              i # j => GetRiverName(river_groups[i]) # GetRiverName(river_groups[j])
        /\ save_out.kind # "DuplicateName"

----------------------------------------------------------------------------
(* C19 *)

\* river j is the same river before and after the step
SameRiver(j) ==
    /\ river_groups'[j].title = river_groups[j].title
    /\ river_groups'[j].name_edit = river_groups[j].name_edit
    /\ river_groups'[j].is_trib = river_groups[j].is_trib

\* the step appended a river
RiverAdded ==
    /\ Len(river_groups') = Len(river_groups) + 1
    /\ \A j \in 1..Len(river_groups) : SameRiver(j)

\* the step renamed or retyped river k and no other
RiverEdited(k) ==
    /\ Len(river_groups') = Len(river_groups)
    /\ ~SameRiver(k)
    /\ \A j \in 1..Len(river_groups) \ {k} : SameRiver(j)

\* tributary j keeps its selected target if a river other than j still
\* has that name after the step
TargetKept(j) ==
    LET target == Strip(CurrentTarget(river_groups[j])) IN
    (/\ river_groups[j].is_trib
     /\ \E i \in 1..Len(river_groups') \ {j} :
           GetRiverName(river_groups'[i]) = target)
        => Strip(CurrentTarget(river_groups'[j])) = target

\* C19: a step that adds a river, or renames or retypes one river, leaves
\* the selected insertion target of every other tributary as it was,
\* provided a river of that name still exists.
C19_OtherTargetsKept ==
    [][/\ RiverAdded => \A j \in 1..Len(river_groups) : TargetKept(j)
       /\ \A k \in 1..Len(river_groups) :
             RiverEdited(k) => \A j \in 1..Len(river_groups) \ {k} : TargetKept(j)]_vars

----------------------------------------------------------------------------
(* C20 *)

\* C20: the save button is disabled when the window opens and is enabled
\* exactly when some load has run to its end, so cancelled and failed
\* loads leave it disabled; the button goes from disabled to enabled only
\* in a load step that parsed the chosen file and built its reservoir
\* rows; a mapping save runs only with the button enabled.
C20_SaveOnlyAfterLoad ==
    /\ ~win.btn_save
    /\ [](win.btn_save <=> load_log.succeeded)
    /\ [](map_out.kind # "none" => load_log.succeeded)
    /\ [][(~win.btn_save /\ win'.btn_save) =>
            /\ load_log'.last = "loaded"
            /\ win'.cfg_path_edit \in DOMAIN configs
            /\ configs[win'.cfg_path_edit].parses
            /\ C13_RowsAreLoadedTopology']_vars

\* a mapping artifact was written after a load
C20_Witness ==
    /\ map_out.written
    /\ win.btn_save

\* a load failed and no load has succeeded: the button is disabled
C20_WitnessFailed ==
    /\ load_log.last = "failed"
    /\ ~load_log.succeeded
    /\ ~win.btn_save

====
